---- MODULE Spec2Model ----
(***************************************************************************)
(* Payment verification and subscription activation of the subscription   *)
(* API: PaymentService.verifyPayment, SubscriptionService and the          *)
(* POST /api/payment/verify handler, with every database operation and     *)
(* every gateway call of a request as one atomic step, so that concurrent  *)
(* requests interleave exactly at the awaits of the source.                *)
(***************************************************************************)
EXTENDS Integers, Sequences, FiniteSets, TLC

\* ------------------------------------------------------------------ bounds
\* Subscription rows ever created (each creates at most one payment row).
MaxSubs == 2
\* Last value of the millisecond clock.
MaxTime == 1
\* Verify requests ever started.
MaxVerifies == 2
\* Last value of the millisecond clock in the login flow.
MaxAuthTime == 2
\* OtpCode rows ever created.
MaxOtps == 4
\* Attempts on one OtpCode row, and logins ever made.
MaxOtpVerifies == 2
\* ApiKey rows
MaxKeys == 2
\* Webhook rows
MaxHooks == 2
\* OtpCode rows where phones come in several forms
MaxPhoneOtps == 4
\* Characters of the phone texts normalizePhone is tried on
MaxPhoneLen == 5
\* Subscriptions created where the side channels may fail
MaxSideSubs == 1
\* Verify requests started where the side channels may fail
MaxSideVerifies == 1
\* OTPs requested where the key check runs.
MaxKeyLogins == 1

\* Request slots: the requests the single process may have in flight at
\* once. An arriving request takes the lowest free slot.
Requests == {1, 2}

\* A Date: whole calendar days since the day the clock started, and the
\* millisecond within that day (the clock of the model stays within one day).
DateAt(t) == [day |-> 0, ms |-> t]

\* date.setDate(date.getDate() + n)
AddDays(date, n) == [date EXCEPT !.day = @ + n]

\* null / undefined of the source.
Null == <<>>

\* ------------------------------------------------------------ plan table
\* Rows of the Plan table the requests refer to; "p3" is switched off.
Plans ==
  [p1 |-> [name |-> "Monthly", price |-> 100000, currency |-> "IRR",
           duration |-> 30, isActive |-> TRUE],
   p2 |-> [name |-> "Daily", price |-> 5000, currency |-> "IRR",
           duration |-> 1, isActive |-> TRUE],
   p3 |-> [name |-> "Retired", price |-> 7000, currency |-> "IRR",
           duration |-> 7, isActive |-> FALSE]]

PlanIds == DOMAIN Plans

\* planId values a request may carry ("p9" names no plan).
PlanIdInputs == PlanIds \cup {"p9"}

\* --------------------------------------------------------------- gateways
gatewayRegistry == {"zarinpal", "mock"}

\* String.prototype.toLowerCase on the gateway names of the model.
ToLowerCase(s) ==
  CASE s = "MOCK" -> "mock"
    [] s = "Zarinpal" -> "zarinpal"
    [] s = "Zibal" -> "zibal"
    [] s = "Constructor" -> "constructor"
    [] s = "toString" -> "tostring"
    [] OTHER -> s

\* gateway values a request may carry: "" is an absent field, "MOCK" names
\* the mock adapter in another letter case, "paypal" names none.
GatewayInputs == {"", "MOCK", "paypal"}

\* The registry of src/routers/payment/gateways, which also knows zibal.
routersGatewayRegistry == {"zarinpal", "mock", "zibal"}

\* The registries by the module that holds them.
Registries == [server |-> gatewayRegistry, routers |-> routersGatewayRegistry]

\* Properties every object literal inherits from Object.prototype.
ObjectPrototypeKeys ==
  {"constructor", "__proto__", "toString", "valueOf", "hasOwnProperty",
   "isPrototypeOf", "propertyIsEnumerable", "toLocaleString"}

\* registry[key] on the object literal: the factory stored under an own
\* key, what Object.prototype holds under an inherited one, or undefined.
RegistryLookup(registry, key) ==
  IF key \in registry THEN [factory |-> key]
  ELSE IF key \in ObjectPrototypeKeys THEN [inherited |-> key]
  ELSE Null

\* getPaymentGateway resolves (does not throw ValidationError).
GatewayKnown(gatewayName) ==
  RegistryLookup(gatewayRegistry, ToLowerCase(gatewayName)) # Null

\* The adapter getPaymentGateway returns.
getPaymentGateway(gatewayName) == ToLowerCase(gatewayName)

\* Codes a provider may report on a failed call.
ProviderErrorCodes == {"-51"}

\* The ValidationError of getPaymentGateway; its message lists
\* Object.keys(registry).
UnsupportedGateway(registry) ==
  [type |-> "ValidationError", code |-> "", available |-> registry]
ValidationError == UnsupportedGateway(gatewayRegistry)
TypeError == [type |-> "TypeError", code |-> ""]
NotFoundError(what) == [type |-> "NotFoundError", code |-> what]
PaymentGatewayError(code) == [type |-> "PaymentGatewayError", code |-> code]
PlanUnavailableError == [type |-> "Error", code |-> "plan not available"]

\* userId values a create request carries.
UserIdInputs == {"u1"}

\* autoRenew values a create request carries (cancelSubscription is what
\* switches it off).
AutoRenewInputs == {TRUE}

\* status values a verify request may carry ("undefined" is an absent field).
StatusInputs == {"undefined", "OK", "NOK", "cancel", "nok"}

\* ------------------------------------------------------------ login flow
\* Phones as requests carry them, and normalizePhone: trim, then a leading
\* +98 becomes 0.
PhoneInputs == {"0912", "+98912"}

\* The phone texts requests carry, with their characters.
Chars ==
  ("0912" :> <<"0", "9", "1", "2">>) @@
  ("+98912" :> <<"+", "9", "8", "9", "1", "2">>) @@
  (" +98912 " :> <<" ", "+", "9", "8", "9", "1", "2", " ">>) @@
  (" 0912" :> <<" ", "0", "9", "1", "2">>) @@
  ("0935" :> <<"0", "9", "3", "5">>) @@
  ("+98935" :> <<"+", "9", "8", "9", "3", "5">>)
PhoneTexts == DOMAIN Chars

\* The text with the given characters.
Text(chars) == CHOOSE p \in PhoneTexts : Chars[p] = chars

\* String.prototype.trim, startsWith and slice on characters.
RECURSIVE TrimStart(_)
TrimStart(s) == IF s # <<>> /\ Head(s) = " " THEN TrimStart(Tail(s)) ELSE s
RECURSIVE TrimEnd(_)
TrimEnd(s) ==
  IF s # <<>> /\ s[Len(s)] = " " THEN TrimEnd(SubSeq(s, 1, Len(s) - 1)) ELSE s
trim(s) == TrimEnd(TrimStart(s))
startsWith(s, prefix) ==
  Len(s) >= Len(prefix) /\ SubSeq(s, 1, Len(prefix)) = prefix
slice(s, n) == SubSeq(s, n + 1, Len(s))

\* A normalization that leaves a leading +98 in place.
normalizeChars_KeepsPrefix(chars) == trim(chars)

\* let p = phone.trim(); if (p.startsWith('+98')) p = '0' + p.slice(3)
normalizeChars(chars) ==
  LET p == trim(chars) IN
  IF startsWith(p, <<"+", "9", "8">>) THEN <<"0">> \o slice(p, 3) ELSE p

normalizePhone(phone) == Text(normalizeChars(Chars[phone]))

\* Character sequences normalizePhone is tried on: up to MaxPhoneLen
\* characters, with spaces, a plus sign and digits.
PhoneAlphabet == {" ", "+", "9", "8", "0"}
CharSeqs == UNION {[1..n -> PhoneAlphabet] : n \in 0..MaxPhoneLen}

\* Keys of the rate-limiter map: `otp:${phone}` of the normalized phones.
RateKeys == {normalizePhone(p) : p \in PhoneTexts}

\* Codes randCode may draw.
CodeInputs == {"1111", "2222"}

\* A code stored in place of its hash.
hashCode_Plain(code) == code

\* sha256 of a code, as a value that differs exactly when the codes differ
\* and is never a code.
hashCode(code) == "sha256:" \o code

\* ApiKeyService.hash: sha256 of a key.
hash(key) == "sha256:" \o key

\* The master key of the configuration, and the keys randomBytes(32) draws,
\* in the order they are drawn.
MasterKey == "master"
randomKey(n) == "k" \o ToString(n)

\* env.AUTH.RATE_LIMIT_MAX_REQUESTS, env.AUTH.RATE_LIMIT_WINDOW_SEC * 1000
\* and env.AUTH.OTP_EXP_MIN * 60000 of the configuration the model runs.
maxReq == 2
windowMs == 1
otpExpMs == 2

RateLimitError == [type |-> "Error", code |-> "Too many OTP requests"]
OtpNotFoundError == [type |-> "Error", code |-> "OTP not found or expired"]
InvalidOtpError == [type |-> "Error", code |-> "Invalid OTP code"]
UniqueConstraintError == [type |-> "Error", code |-> "Unique constraint failed"]

\* ------------------------------------------------------------------ state
VARIABLES
  now,            \* the millisecond clock (Date.now())
  subscriptions,  \* Subscription table, row id = index
  payments,       \* Payment table, row id = index
  req,            \* per request slot: position and locals of the verify request
  adapterCalls,   \* per authority: adapter verifyPayment invocations so far
  createCalls,    \* adapter createPayment invocations so far
  activations,    \* per subscription id: ACTIVE writes of activateSubscription
  nVerify,        \* verify requests started so far
  response,       \* what the latest finished call handed back to its caller
  probe,          \* a function called on its own: its arguments and outcome
  rate,           \* AuthService.rate: per key, the window entry (or Null)
  otpCodes,       \* OtpCode table, row id = index (creation order)
  users,          \* User table, row id = index
  apiKeys,        \* ApiKey table, row id = index
  admitted,       \* per key: the clock values of the admitted requestOtp calls
  masterKey,      \* env.MASTER_API_KEY ("" when not configured)
  webhooks,       \* Webhook table, row id = index
  deliveries,     \* WebhookDelivery table, row id = index
  attemptLog,     \* the HTTP attempts of tryDeliver, in order
  sideLog         \* the side-channel failures the latest operation swallowed

vars == <<now, subscriptions, payments, req, adapterCalls, createCalls,
          activations, nVerify, response, probe, rate, otpCodes, users,
          apiKeys, admitted, masterKey, webhooks, deliveries, attemptLog,
          sideLog>>

\* The webhook tables.
hookVars == <<webhooks, deliveries, attemptLog>>

\* The state of the login flow and of the key check.
loginVars == <<probe, rate, otpCodes, users, apiKeys, admitted, masterKey>>

\* What the requests of the payment flow leave alone, but for the side
\* channels of createPayment and activateSubscription.
sideVars == <<loginVars, hookVars, sideLog>>

\* What the requests of the login flow never touch.
paymentVars == <<subscriptions, payments, req, adapterCalls, createCalls,
                 activations, nVerify, probe, masterKey, hookVars>>

\* Authorities the gateways can issue, and one ("A", 0) that none issued.
Authorities ==
  {<<"AUTH", t>> : t \in 0..MaxTime} \cup {<<"A", n>> : n \in 0..MaxSubs}

IdleRequest ==
  [pc |-> "idle", status |-> "undefined", pid |-> 0,
   snap |-> Null, verifyRequest |-> Null, verifyResponse |-> Null,
   err |-> Null, calls |-> 0, paidAt |-> Null, result |-> Null,
   startDate |-> Null, endDate |-> Null]

Boot ==
  /\ now = 0
  /\ subscriptions = <<>>
  /\ payments = <<>>
  /\ req = [r \in Requests |-> IdleRequest]
  /\ adapterCalls = [a \in Authorities |-> 0]
  /\ createCalls = 0
  /\ activations = [s \in 1..MaxSubs |-> 0]
  /\ nVerify = 0
  /\ response = Null
  /\ probe = Null
  /\ rate = [k \in RateKeys |-> Null]
  /\ otpCodes = <<>>
  /\ users = <<>>
  /\ apiKeys = <<>>
  /\ admitted = [k \in RateKeys |-> <<>>]
  /\ webhooks = <<>>
  /\ deliveries = <<>>
  /\ attemptLog = <<>>
  /\ sideLog = Null

Init ==
  /\ Boot
  /\ masterKey = MasterKey

\* The clock advances.
Tick ==
  /\ now < MaxTime
  /\ now' = now + 1
  /\ UNCHANGED <<sideVars, createCalls, subscriptions, payments, req, adapterCalls, activations,
                 nVerify, response>>

\* ------------------------------------------------------ gateway adapters
\* Adapter createPayment: the authority it returns. The mock adapter builds
\* it from the clock alone; the provider issues a new one per request.
MockAuthority == <<"AUTH", now>>
ProviderAuthority == <<"A", Len(payments) + 1>>

CreateAuthority(adapter) ==
  IF adapter = "mock" THEN MockAuthority ELSE ProviderAuthority

CreateMessage(adapter) ==
  IF adapter = "mock" THEN "Mock payment created" ELSE "Success"

\* Adapter verifyPayment: the responses it can return for a request.
\* The mock adapter always succeeds with REF-<clock>; the provider answers
\* with its reference for the authority.
VerifyResponses(adapter, verifyRequest) ==
  IF adapter = "mock"
    THEN {[refId |-> <<"REF", now>>, cardPan |-> "1234-5678-****-****",
           cardHash |-> "mock-hash", feeType |-> "fixed", fee |-> 0]}
    ELSE {[refId |-> <<"ZREF", verifyRequest.authority>>,
           cardPan |-> "6037-99**-****-1234", cardHash |-> "card-hash",
           feeType |-> "Merchant", fee |-> 1200]}

\* Adapter verifyPayment: the errors it can throw (the mock adapter throws none).
VerifyErrors(adapter) ==
  IF adapter = "mock" THEN {}
  ELSE {PaymentGatewayError(c) : c \in ProviderErrorCodes}

\* Adapter createPayment: the errors it can throw.
CreateErrors(adapter) ==
  IF adapter = "mock" THEN {}
  ELSE {PaymentGatewayError(c) : c \in ProviderErrorCodes}

\* ---------------------------------------------------------- side channels
\* What a promise of a side channel settles to.
\* sendSms / sendPattern and sendEmail catch what their provider call
\* throws and log it; `ok` is whether the provider call worked.
SmsSend(ok) == "fulfilled"
EmailSend(ok) == "fulfilled"

\* await Promise.allSettled(promises)
AllSettled(results) == "fulfilled"

\* NotificationService.sendPaymentLink and sendSubscriptionActivated.
sendPaymentLink(smsOk, emailOk) == AllSettled({SmsSend(smsOk), EmailSend(emailOk)})
sendSubscriptionActivated(smsOk, emailOk) ==
  AllSettled({SmsSend(smsOk), EmailSend(emailOk)})

\* An audit write that lets the failure of auditLog.create out.
AuditLog_Throws(ok) == IF ok THEN "fulfilled" ELSE "rejected"

\* AuditService.log: try { await auditLog.create } catch { swallow }
AuditLog(ok) == "fulfilled"

\* The error a side channel would surface if it were let out.
SideChannelError == [type |-> "Error", code |-> "side channel failed"]

\* The channels that failed, of those an operation used.
FailedChannels(outcomes) == {c \in DOMAIN outcomes : ~outcomes[c]}

\* What the operation's failures leave in the error log: nothing when
\* every channel worked.
LogFailures(op, failed) ==
  IF failed = {} THEN sideLog ELSE [op |-> op, failed |-> failed]

\* ------------------------------------------------------------- WebhookService
\* tryDeliver: const maxAttempts = 3; const backoff = [0, 1000, 3000]
maxAttempts == 3
backoff == <<0, 1000, 3000>>

\* What the HTTP attempts of one delivery meet (TRUE: axios.post resolves),
\* and that for every webhook.
HttpOutcomes == [1..maxAttempts -> BOOLEAN]
HookOutcomeInputs == [1..MaxHooks -> HttpOutcomes]
AllDelivered == [h \in 1..MaxHooks |-> [i \in 1..maxAttempts |-> TRUE]]

\* Users that own webhooks, and the event type lists they register.
HookUserInputs == {"u1", "u2"}
EventTypeInputs == {{}, {"subscription.activated"}, {"payment.completed"}}

\* WebhookService.create
CreateWebhook(userId, eventTypes) ==
  /\ Len(webhooks) < MaxHooks
  /\ webhooks' = Append(webhooks,
       [userId |-> userId, eventTypes |-> eventTypes, isActive |-> TRUE])
  /\ response' = [http |-> 201, webhook |-> Len(webhooks) + 1]
  /\ UNCHANGED <<now, subscriptions, payments, req, adapterCalls, createCalls,
                 activations, nVerify, loginVars, deliveries, attemptLog, sideLog>>

\* WebhookService.update of isActive
UpdateWebhook(userId, id, isActive) ==
  /\ IF id \notin 1..Len(webhooks) \/ webhooks[id].userId # userId
       THEN /\ response' = [http |-> 404, message |-> "Webhook not found"]
            /\ UNCHANGED webhooks
       ELSE /\ webhooks' = [webhooks EXCEPT ![id].isActive = isActive]
            /\ response' = [http |-> 200, webhook |-> id]
  /\ UNCHANGED <<now, subscriptions, payments, req, adapterCalls, createCalls,
                 activations, nVerify, loginVars, deliveries, attemptLog, sideLog>>

\* A loop that goes on to the next attempt after a successful one.
DeliveryDone_RetriesAfterSuccess(row, i) == i >= maxAttempts

\* The loop of tryDeliver ends: `return` after a successful attempt, or
\* i < maxAttempts fails.
DeliveryDone(row, i) == row.status = "SUCCESS" \/ i >= maxAttempts

\* status: i + 1 >= maxAttempts ? 'FAILED' : 'PENDING'
StatusAfterFailure(i) == IF i + 1 >= maxAttempts THEN "FAILED" ELSE "PENDING"

\* tryDeliver from loop index i: the delivery row it leaves and the
\* attempts it made, each with the wait before it.
RECURSIVE TryDeliverFrom(_, _, _, _)
TryDeliverFrom(row, i, outcomes, log) ==
  IF DeliveryDone(row, i) THEN [row |-> row, log |-> log]
  ELSE LET attempt == [delivery |-> row.id, wait |-> backoff[i + 1],
                       ok |-> outcomes[i + 1]]
       IN TryDeliverFrom(
            [row EXCEPT !.status = IF outcomes[i + 1] THEN "SUCCESS"
                                   ELSE StatusAfterFailure(i),
                        !.attemptCount = i + 1],
            i + 1, outcomes, Append(log, attempt))

\* tryDeliver(hook, delivery)
TryDeliver(delivery, outcomes) ==
  TryDeliverFrom(delivery, delivery.attemptCount, outcomes, <<>>)

\* if (types.length && !types.includes(eventType)) continue, on the hooks
\* findMany({ where: { userId, isActive: true } }) returns.
HookSelected(hook, userId, eventType) ==
  /\ hook.userId = userId
  /\ hook.isActive
  /\ hook.eventTypes = {} \/ eventType \in hook.eventTypes

\* dispatch from webhook h on: the WebhookDelivery table and the attempts.
RECURSIVE DispatchFrom(_, _, _, _, _, _)
DispatchFrom(h, userId, eventType, payload, outcomes, acc) ==
  IF h > Len(webhooks) THEN acc
  ELSE IF ~HookSelected(webhooks[h], userId, eventType)
    THEN DispatchFrom(h + 1, userId, eventType, payload, outcomes, acc)
  ELSE LET delivery == [id |-> Len(acc.deliveries) + 1, webhookId |-> h,
                        eventType |-> eventType, payload |-> payload,
                        status |-> "PENDING", attemptCount |-> 0]
           done == TryDeliver(delivery, outcomes[h])
       IN DispatchFrom(h + 1, userId, eventType, payload, outcomes,
            [deliveries |-> Append(acc.deliveries, done.row),
             log |-> acc.log \o done.log])

\* The HTTP attempts made for delivery d, in order.
AttemptsOf(d) ==
  LET OfDelivery(a) == a.delivery = d IN SelectSeq(attemptLog, OfDelivery)

\* WebhookService.dispatch(userId, eventType, payload)
Dispatch(userId, eventType, payload, outcomes) ==
  DispatchFrom(1, userId, eventType, payload, outcomes,
               [deliveries |-> deliveries, log |-> attemptLog])

\* ------------------------------------------------- SubscriptionService
\* A createSubscription that would hand out access before any payment.
InitialSubscriptionStatus_Active == "ACTIVE"

\* Status of the row createSubscription inserts.
InitialSubscriptionStatus == "PENDING"

\* Status of the row createPayment inserts.
InitialPaymentStatus == "PENDING"

NewSubscription(userId, planId, autoRenew) ==
  [userId |-> userId, planId |-> planId, status |-> InitialSubscriptionStatus,
   autoRenew |-> autoRenew, startDate |-> Null, endDate |-> Null,
   createdAt |-> DateAt(now)]

NewPayment(subscriptionId, amount, currency, gateway, adapter) ==
  [id |-> Len(payments) + 1, subscriptionId |-> subscriptionId,
   amount |-> amount, currency |-> currency, gateway |-> gateway,
   authority |-> CreateAuthority(adapter),
   paymentUrl |-> <<"StartPay", CreateAuthority(adapter)>>,
   status |-> InitialPaymentStatus, gatewayTxId |-> Null, paidAt |-> Null,
   verifiedAt |-> Null,
   metadata |-> [message |-> CreateMessage(adapter)]]

\* A plan check that forgets the isActive test.
PlanAvailable_IgnoreActive(planId) == planId \in PlanIds

\* The plan exists and is switched on.
PlanAvailable(planId) == planId \in PlanIds /\ Plans[planId].isActive

\* The error createSubscription throws for a plan that is not available.
PlanError(planId) ==
  IF planId \notin PlanIds THEN NotFoundError("Plan") ELSE PlanUnavailableError

\* The catch block of a handler: every thrown error is answered 400.
ErrorResponseBody(e) == [http |-> 400, error |-> e]

\* The composite createSubscription returns, as the handler answers it.
CreateResponseBody(sid, subscription, payment) ==
  [http |-> 200,
   subscription |-> [id |-> sid, userId |-> subscription.userId,
                     planId |-> subscription.planId,
                     status |-> subscription.status],
   payment |-> [id |-> payment.id, amount |-> payment.amount,
                currency |-> payment.currency, paymentUrl |-> payment.paymentUrl,
                authority |-> payment.authority, status |-> payment.status]]

\* A createSubscription that removes the subscription row again when the
\* payment cannot be created.
SubscriptionsAfterFailedPayment_RolledBack(userId, planId, autoRenew) ==
  subscriptions

\* The Subscription table after createPayment threw inside createSubscription.
SubscriptionsAfterFailedPayment(userId, planId, autoRenew) ==
  Append(subscriptions, NewSubscription(userId, planId, autoRenew))

\* POST /api/subscription: createSubscription, then createPayment inside it.
\* A missing or switched-off plan throws before anything is written; a
\* gateway the registry rejects, or an adapter that throws, leaves the
\* subscription row behind without a payment row.
CreateSubscriptionWith(userId, planId, gatewayInput, autoRenew, smsOk, emailOk) ==
  LET gateway == IF gatewayInput = "" THEN "zarinpal" ELSE gatewayInput
      sid == Len(subscriptions) + 1
      subscription == NewSubscription(userId, planId, autoRenew)
      payment == NewPayment(sid, Plans[planId].price, Plans[planId].currency,
                            gateway, getPaymentGateway(gateway))
  IN
  /\ Len(subscriptions) < MaxSubs
  /\ UNCHANGED <<loginVars, hookVars, now, req, adapterCalls, activations, nVerify>>
  /\ IF ~PlanAvailable(planId)
       THEN /\ response' = ErrorResponseBody(PlanError(planId))
            /\ UNCHANGED <<subscriptions, payments, createCalls, sideLog>>
       ELSE IF ~GatewayKnown(gateway)
         THEN /\ subscriptions' =
                   SubscriptionsAfterFailedPayment(userId, planId, autoRenew)
              /\ response' = ErrorResponseBody(ValidationError)
              /\ UNCHANGED <<payments, createCalls, sideLog>>
         ELSE
           /\ createCalls' = createCalls + 1
           /\ \/ \E e \in CreateErrors(getPaymentGateway(gateway)) :
                   /\ subscriptions' =
                        SubscriptionsAfterFailedPayment(userId, planId, autoRenew)
                   /\ response' = ErrorResponseBody(e)
                   /\ UNCHANGED <<payments, sideLog>>
              \/ /\ subscriptions' = Append(subscriptions, subscription)
                 /\ payments' = Append(payments, payment)
                 /\ sideLog' = LogFailures("createPayment",
                      FailedChannels([sms |-> smsOk, email |-> emailOk]))
                 /\ response' =
                      IF sendPaymentLink(smsOk, emailOk) = "rejected"
                        THEN ErrorResponseBody(SideChannelError)
                        ELSE CreateResponseBody(sid, subscription, payment)

\* POST /api/subscription with every side channel working.
CreateSubscription(userId, planId, gatewayInput, autoRenew) ==
  CreateSubscriptionWith(userId, planId, gatewayInput, autoRenew, TRUE, TRUE)

\* What a service method called directly handed back: a value or an error.
Returned(value) == [returned |-> value]
Thrown(e) == [thrown |-> e]

\* A cancellation that also ends the paid period.
CancelledRow_ClearsEndDate(subscription) ==
  [subscription EXCEPT !.status = "CANCELLED", !.autoRenew = FALSE,
                       !.endDate = Null]

\* The row the update of cancelSubscription writes.
CancelledRow(subscription) ==
  [subscription EXCEPT !.status = "CANCELLED", !.autoRenew = FALSE]

\* SubscriptionService.cancelSubscription.
CancelSubscription(subscriptionId) ==
  /\ UNCHANGED <<sideVars, createCalls, now, payments, req, adapterCalls, activations, nVerify>>
  /\ IF subscriptionId \notin 1..Len(subscriptions)
       THEN /\ response' = Thrown(NotFoundError("Subscription"))
            /\ UNCHANGED subscriptions
       ELSE /\ subscriptions' = [subscriptions EXCEPT ![subscriptionId] =
                                   CancelledRow(subscriptions[subscriptionId])]
            /\ response' = Returned(subscriptions'[subscriptionId])

\* ------------------------------------------------------- PaymentService
\* prisma.payment.findFirst({ where: { authority } }): the rows it may
\* return. The query carries no orderBy, so any matching row may come first.
FindFirstByAuthority(authority) ==
  {i \in 1..Len(payments) : payments[i].authority = authority}

\* A cancellation test that ignores letter case.
IsCancelStatus_IgnoreCase(status) ==
  status = "NOK" \/ status = "cancel" \/ status = "nok"

\* The status values that mean the gateway reported cancellation or failure.
IsCancelStatus(status) == status = "NOK" \/ status = "cancel"

\* An already-completed test that also holds a call back while another
\* call is working on the same payment.
AlreadyCompleted_OrInFlight(payment) ==
  \/ payment.status = "COMPLETED"
  \/ \E o \in Requests : req[o].pc # "idle" /\ req[o].pid = payment.id

\* The already-completed test, made on the row as it was read.
AlreadyCompleted(payment) == payment.status = "COMPLETED"

\* A verify request that leaves the amount check to the provider's default.
VerifyRequestOf_NoAmount(payment) ==
  [authority |-> payment.authority, amount |-> 0]

\* The request verifyPayment hands to the adapter.
VerifyRequestOf(payment) ==
  [authority |-> payment.authority, amount |-> payment.amount]

\* Status written when the status argument reports cancellation.
StatusAfterCancel == "FAILED"

\* An adapter-failure path that forgets to record the failure.
StatusAfterAdapterFailure_Pending == "PENDING"

\* Status written when the adapter's verifyPayment throws.
StatusAfterAdapterFailure == "FAILED"

\* Status written when the adapter's verifyPayment returns.
StatusAfterVerification == "COMPLETED"

\* A merge that writes the reference fields over the whole metadata.
MergeMetadata_DropsExisting(existingMetadata, verifyResponse) ==
  [k \in {"refId", "cardPan", "cardHash", "feeType", "fee"} |-> verifyResponse[k]]

\* { ...existingMetadata, refId, cardPan, cardHash, feeType, fee }
MergeMetadata(existingMetadata, verifyResponse) ==
  [k \in DOMAIN existingMetadata \cup {"refId", "cardPan", "cardHash", "feeType", "fee"} |->
     IF k \in {"refId", "cardPan", "cardHash", "feeType", "fee"}
       THEN verifyResponse[k]
       ELSE existingMetadata[k]]

\* The row the successful update writes over the stored one.
CompletedPayment(stored, snap, verifyResponse, paidAt) ==
  [stored EXCEPT !.status = StatusAfterVerification,
                 !.gatewayTxId = verifyResponse.refId,
                 !.paidAt = paidAt,
                 !.verifiedAt = paidAt,
                 !.metadata = MergeMetadata(snap.metadata, verifyResponse)]

\* ------------------------------------------- POST /api/payment/verify
\* The handler's test before activateSubscription.
ShouldActivate(payment) == payment.status = "COMPLETED"

\* The body the handler answers with when verifyPayment returned.
VerifyResponseBody(payment) ==
  [http |-> 200, success |-> (payment.status = "COMPLETED"),
   payment |-> [id |-> payment.id, amount |-> payment.amount,
                currency |-> payment.currency, status |-> payment.status,
                paidAt |-> payment.paidAt, gatewayTxId |-> payment.gatewayTxId],
   subscriptionId |-> payment.subscriptionId]

\* The handler answers request r; its locals are gone.
Answer(r, body) ==
  /\ req' = [req EXCEPT ![r] = IdleRequest]
  /\ response' = body

\* Request r goes on with locals q.
Continue(r, q) ==
  /\ req' = [req EXCEPT ![r] = q]
  /\ UNCHANGED response

\* verifyPayment returns `payment` to the handler of request r.
Return(r, q, payment) ==
  IF ShouldActivate(payment)
    THEN Continue(r, [q EXCEPT !.pc = "a_find", !.result = payment])
    ELSE Answer(r, VerifyResponseBody(payment))

\* A verify request arrives; verifyPayment reads the payment (findFirst)
\* and runs up to its next await.
StartVerify(r, authority, status) ==
  LET q == [IdleRequest EXCEPT !.status = status]
  IN
  /\ req[r].pc = "idle"
  /\ \A r2 \in Requests : r2 < r => req[r2].pc # "idle"
  /\ nVerify < MaxVerifies
  /\ nVerify' = nVerify + 1
  /\ UNCHANGED <<sideVars, createCalls, now, subscriptions, payments, adapterCalls, activations>>
  /\ IF FindFirstByAuthority(authority) = {}
       THEN Answer(r, ErrorResponseBody(NotFoundError("Payment")))
       ELSE \E i \in FindFirstByAuthority(authority) :
         LET payment == payments[i]
             found == [q EXCEPT !.pid = i, !.snap = payment]
         IN
         IF IsCancelStatus(status)
           THEN Continue(r, [found EXCEPT !.pc = "v_cancel"])
         ELSE IF AlreadyCompleted(payment)
           THEN Return(r, [found EXCEPT !.status = "undefined"], payment)
         ELSE IF ~GatewayKnown(payment.gateway)
           THEN Answer(r, ErrorResponseBody(ValidationError))
         ELSE Continue(r, [found EXCEPT !.pc = "v_gateway",
                                        !.verifyRequest = VerifyRequestOf(payment)])

\* The update of the cancellation path commits; verifyPayment throws.
CancelWrite(r) ==
  /\ req[r].pc = "v_cancel"
  /\ payments' = [payments EXCEPT ![req[r].pid].status = StatusAfterCancel]
  /\ Answer(r, ErrorResponseBody(PaymentGatewayError("cancelled")))
  /\ UNCHANGED <<sideVars, createCalls, now, subscriptions, adapterCalls, activations, nVerify>>

\* The adapter's verifyPayment is invoked and returns or throws.
GatewayVerify(r) ==
  LET adapter == getPaymentGateway(req[r].snap.gateway)
      \* the status argument is not read again after the cancellation test
      called == [req[r] EXCEPT !.calls = @ + 1, !.status = "undefined"]
  IN
  /\ req[r].pc = "v_gateway"
  /\ adapterCalls' = [adapterCalls EXCEPT ![req[r].verifyRequest.authority] = @ + 1]
  /\ \/ \E vr \in VerifyResponses(adapter, req[r].verifyRequest) :
          Continue(r, [called EXCEPT !.pc = "v_complete", !.verifyResponse = vr,
                                     !.paidAt = DateAt(now)])
     \/ \E e \in VerifyErrors(adapter) :
          Continue(r, [called EXCEPT !.pc = "v_fail", !.err = e])
  /\ UNCHANGED <<sideVars, createCalls, now, subscriptions, payments, activations, nVerify>>

\* The update of the adapter-failure path commits; the error is rethrown.
FailWrite(r) ==
  /\ req[r].pc = "v_fail"
  /\ payments' = [payments EXCEPT ![req[r].pid].status = StatusAfterAdapterFailure]
  /\ Answer(r, ErrorResponseBody(req[r].err))
  /\ UNCHANGED <<sideVars, createCalls, now, subscriptions, adapterCalls, activations, nVerify>>

\* The update of the success path commits; verifyPayment returns the row.
CompleteWrite(r) ==
  LET updated == CompletedPayment(payments[req[r].pid], req[r].snap,
                                  req[r].verifyResponse, req[r].paidAt)
  IN
  /\ req[r].pc = "v_complete"
  /\ payments' = [payments EXCEPT ![req[r].pid] = updated]
  /\ Return(r, req[r], updated)
  /\ UNCHANGED <<sideVars, createCalls, now, subscriptions, adapterCalls, activations, nVerify>>

\* ------------------------------ SubscriptionService.activateSubscription
\* const startDate = new Date(), read at clock value t.
ActivationStartDate(t) == DateAt(t)

\* An endDate left at the moment of activation: the setDate call is missing.
ActivationEndDate_NoDuration(t, duration) == DateAt(t)

\* const endDate = new Date(), read at clock value t, then
\* endDate.setDate(endDate.getDate() + duration).
ActivationEndDate(t, duration) == AddDays(DateAt(t), duration)

\* Clock values the second new Date() can see after the first saw `now`.
SecondClockReads == {t \in {now, now + 1} : t <= MaxTime}

\* activateSubscription reads the subscription with its plan and computes
\* the two dates.
ActivateFind(r) ==
  LET sid == req[r].result.subscriptionId IN
  /\ req[r].pc = "a_find"
  /\ UNCHANGED <<sideVars, createCalls, subscriptions, payments, adapterCalls, activations, nVerify>>
  /\ IF sid \notin 1..Len(subscriptions)
       THEN /\ Answer(r, ErrorResponseBody(NotFoundError("Subscription")))
            /\ UNCHANGED now
       ELSE \E t \in SecondClockReads :
            /\ now' = t
            /\ Continue(r, [req[r] EXCEPT
                 !.pc = "a_write",
                 !.startDate = ActivationStartDate(now),
                 !.endDate = ActivationEndDate(
                    t, Plans[subscriptions[sid].planId].duration)])

\* The update of activateSubscription commits.
ActivateWrite(r) ==
  LET sid == req[r].result.subscriptionId IN
  /\ req[r].pc = "a_write"
  /\ subscriptions' = [subscriptions EXCEPT
                         ![sid].status = "ACTIVE",
                         ![sid].startDate = req[r].startDate,
                         ![sid].endDate = req[r].endDate]
  /\ activations' = [activations EXCEPT ![sid] = @ + 1]
  /\ Continue(r, [req[r] EXCEPT !.pc = "a_side"])
  /\ UNCHANGED <<sideVars, createCalls, now, payments, adapterCalls, nVerify>>

\* A payload built from the row findUnique returned before the update.
ActivatedPayload_BeforeUpdate(r) ==
  LET sid == req[r].result.subscriptionId IN
  [id |-> sid, userId |-> subscriptions[sid].userId,
   planId |-> subscriptions[sid].planId,
   startDate |-> Null, endDate |-> Null]

\* The payload of subscription.activated: id, userId, planId, startDate and
\* endDate of updatedSubscription, the row the update of this request
\* returned.
ActivatedPayload(r) ==
  LET sid == req[r].result.subscriptionId IN
  [id |-> sid, userId |-> subscriptions[sid].userId,
   planId |-> subscriptions[sid].planId,
   startDate |-> req[r].startDate, endDate |-> req[r].endDate]

\* Notification, audit entry and webhook dispatch are attempted; the
\* handler answers with the payment verifyPayment returned.
ActivateSideEffectsWith(r, smsOk, emailOk, auditOk, hookOutcomes) ==
  LET userId == subscriptions[req[r].result.subscriptionId].userId
      dispatched == Dispatch(userId, "subscription.activated",
                             ActivatedPayload(r), hookOutcomes)
      notified == sendSubscriptionActivated(smsOk, emailOk) = "fulfilled"
      audited == notified /\ AuditLog(auditOk) = "fulfilled"
      webhookOk == \A i \in 1..Len(dispatched.log) :
                     i > Len(attemptLog) => dispatched.log[i].ok
  IN
  /\ req[r].pc = "a_side"
  /\ IF audited
       THEN /\ deliveries' = dispatched.deliveries
            /\ attemptLog' = dispatched.log
            /\ Answer(r, VerifyResponseBody(req[r].result))
       ELSE /\ UNCHANGED <<deliveries, attemptLog>>
            /\ Answer(r, ErrorResponseBody(SideChannelError))
  /\ sideLog' = LogFailures("activateSubscription",
       FailedChannels([sms |-> smsOk, email |-> emailOk, audit |-> auditOk,
                       webhook |-> webhookOk]))
  /\ UNCHANGED <<loginVars, webhooks, createCalls, now, subscriptions, payments,
                 adapterCalls, activations, nVerify>>

\* The side effects of an activation with every side channel working.
ActivateSideEffects(r) == ActivateSideEffectsWith(r, TRUE, TRUE, TRUE, AllDelivered)

\* ------------------------------------------------------------ AuthService
\* The clock of the login flow advances.
AuthTick ==
  /\ now < MaxAuthTime
  /\ now' = now + 1
  /\ UNCHANGED <<paymentVars, sideLog, response, rate, otpCodes, users, apiKeys, admitted>>

\* A window test that already starts a new window at windowStart + windowMs.
WindowElapsed_AtBoundary(entry) == now - entry.windowStart >= windowMs

\* now - entry.windowStart > windowMs
WindowElapsed(entry) == now - entry.windowStart > windowMs

\* A limit test that lets one call too many through.
LimitReached_OffByOne(entry) == entry.count > maxReq

\* entry.count >= maxReq
LimitReached(entry) == entry.count >= maxReq

\* A limiter that counts the OtpCode rows of the phone's window, a read
\* that ends before calls still in flight have committed theirs.
checkRateLimit_CountsRows(key) ==
  LET entry == rate[key]
      rows == Cardinality({i \in 1..Len(otpCodes) :
                /\ otpCodes[i].phone = key
                /\ entry # Null
                /\ otpCodes[i].createdAt >= entry.windowStart})
  IN
  IF entry = Null \/ WindowElapsed(entry)
    THEN [count |-> 1, windowStart |-> now]
  ELSE IF rows >= maxReq THEN Null
  ELSE [entry EXCEPT !.count = rows + 1]

\* checkRateLimit(key): the entry it stores, or Null when it throws.
checkRateLimit(key) ==
  LET entry == rate[key] IN
  IF entry = Null \/ WindowElapsed(entry)
    THEN [count |-> 1, windowStart |-> now]
  ELSE IF LimitReached(entry) THEN Null
  ELSE [entry EXCEPT !.count = @ + 1]

\* A limiter that restarts the window of a call it rejects.
RateAfter_RejectRestarts(key) ==
  IF checkRateLimit(key) = Null THEN [rate EXCEPT ![key].windowStart = now]
  ELSE [rate EXCEPT ![key] = checkRateLimit(key)]

\* this.rate after checkRateLimit(key): rate.set runs on the paths that
\* return, not on the one that throws.
RateAfter(key) ==
  IF checkRateLimit(key) = Null THEN rate
  ELSE [rate EXCEPT ![key] = checkRateLimit(key)]

\* POST /api/auth/request-otp: requestOtp(rawPhone), `code` being what
\* randCode draws.
RequestOtpWith(rawPhone, code, smsOk) ==
  LET phone == normalizePhone(rawPhone)
      entry == checkRateLimit(phone)
  IN
  /\ Len(otpCodes) < MaxOtps
  /\ UNCHANGED <<paymentVars, now, users, apiKeys>>
  /\ rate' = RateAfter(phone)
  /\ IF entry = Null
       THEN /\ response' = [http |-> 429, error |-> RateLimitError]
            /\ UNCHANGED <<otpCodes, admitted, sideLog>>
       ELSE /\ admitted' = [admitted EXCEPT ![phone] = Append(@, now)]
            /\ otpCodes' = Append(otpCodes,
                 [phone |-> phone, codeHash |-> hashCode(code),
                  expiresAt |-> now + otpExpMs, createdAt |-> now,
                  attempts |-> 0, usedAt |-> Null])
            /\ sideLog' = LogFailures("requestOtp", FailedChannels([sms |-> smsOk]))
            /\ response' = IF SmsSend(smsOk) = "rejected"
                             THEN [http |-> 429, error |-> SideChannelError]
                             ELSE [http |-> 200, success |-> TRUE]

\* requestOtp with the SMS provider working.
RequestOtp(rawPhone, code) == RequestOtpWith(rawPhone, code, TRUE)

\* A record test that locks a record after a failed attempt.
Usable_LockedAfterFailure(record) ==
  record.usedAt = Null /\ record.expiresAt > now /\ record.attempts = 0

\* A record test that still takes a record at its expiresAt.
Usable_AtExpiry(record) == record.usedAt = Null /\ record.expiresAt >= now

\* where: { usedAt: null, expiresAt: { gt: new Date() } }
Usable(record) == record.usedAt = Null /\ record.expiresAt > now

\* A findFirst that orders by createdAt ascending.
FindLatestOtp_Oldest(phone) ==
  LET live == {i \in 1..Len(otpCodes) :
                 otpCodes[i].phone = phone /\ Usable(otpCodes[i])}
  IN {i \in live : \A j \in live : otpCodes[j].createdAt >= otpCodes[i].createdAt}

\* findFirst({ where: { phone, usedAt: null, expiresAt: { gt: now } },
\* orderBy: { createdAt: 'desc' } }): the rows it may return. Rows created
\* in the same millisecond tie, and any of them may come first.
FindLatestOtp(phone) ==
  LET live == {i \in 1..Len(otpCodes) :
                 otpCodes[i].phone = phone /\ Usable(otpCodes[i])}
  IN {i \in live : \A j \in live : otpCodes[j].createdAt <= otpCodes[i].createdAt}

\* An update that counts an attempt only when the code was wrong.
VerifiedOtp_CountsMismatchOnly(record, ok) ==
  [record EXCEPT !.attempts = IF ok THEN @ ELSE @ + 1,
                 !.usedAt = IF ok THEN <<now>> ELSE @]

\* data: { attempts: record.attempts + 1,
\*         usedAt: ok ? new Date() : record.usedAt }
VerifiedOtp(record, ok) ==
  [record EXCEPT !.attempts = @ + 1,
                 !.usedAt = IF ok THEN <<now>> ELSE @]

\* A login that creates its User row without looking for one.
UsersAfterLogin_AlwaysCreates(phone) ==
  Append(users, [phone |-> phone, role |-> "USER"])

\* user.findUnique({ where: { phone } }), then user.create when none.
UsersAfterLogin(phone) ==
  IF \E u \in 1..Len(users) : users[u].phone = phone
    THEN users
    ELSE Append(users, [phone |-> phone, role |-> "USER"])

\* The row findUnique({ where: { phone } }) returns among `rows`, with its id.
UserByPhone(rows, phone) ==
  LET u == CHOOSE n \in 1..Len(rows) : rows[n].phone = phone
  IN [id |-> u, phone |-> rows[u].phone, role |-> rows[u].role]

\* apiKey.create({ data: { userId, label, hash } }): the row, userId 0
\* being null.
NewApiKey(key, userId, label) ==
  [hash |-> hash(key), userId |-> userId, label |-> label,
   isActive |-> TRUE, lastUsedAt |-> Null]

\* The body verify-otp answers with on success.
LoginResponseBody(user, apiKeyPlain) ==
  [http |-> 200, user |-> user, apiKey |-> apiKeyPlain]

\* POST /api/auth/verify-otp: verifyOtp(rawPhone, code). A usedAt that is
\* set holds the clock value as <<t>>.
VerifyOtp(rawPhone, code) ==
  LET phone == normalizePhone(rawPhone) IN
  /\ Len(apiKeys) < MaxOtpVerifies
  /\ UNCHANGED <<paymentVars, sideLog, now, rate, admitted>>
  /\ IF FindLatestOtp(phone) = {}
       THEN /\ response' = [http |-> 400, error |-> OtpNotFoundError]
            /\ UNCHANGED <<otpCodes, users, apiKeys>>
       ELSE \E i \in FindLatestOtp(phone) :
         LET record == otpCodes[i]
             ok == record.codeHash = hashCode(code)
         IN
         /\ record.attempts < MaxOtpVerifies
         /\ otpCodes' = [otpCodes EXCEPT ![i] = VerifiedOtp(record, ok)]
         /\ IF ok
              THEN LET user == UserByPhone(UsersAfterLogin(phone), phone)
                       apiKeyPlain == randomKey(Len(apiKeys) + 1)
                   IN
                   /\ users' = UsersAfterLogin(phone)
                   /\ apiKeys' = Append(apiKeys, NewApiKey(apiKeyPlain, user.id, "login"))
                   /\ response' = LoginResponseBody(user, apiKeyPlain)
              ELSE /\ response' = [http |-> 400, error |-> InvalidOtpError]
                   /\ UNCHANGED <<users, apiKeys>>

\* ------------------------------------- login calls that run concurrently
\* What a login step leaves alone besides the login tables and `req`.
raceFrame ==
  <<subscriptions, payments, adapterCalls, createCalls, activations, nVerify,
    probe, masterKey, hookVars, sideLog>>

\* Request r goes on at `pc` with locals `locals`.
LoginContinue(r, pc, locals) ==
  /\ req' = [req EXCEPT ![r] = [IdleRequest EXCEPT !.pc = pc, !.snap = locals]]
  /\ UNCHANGED response

\* requestOtp up to its first await: normalizePhone, checkRateLimit,
\* randCode, hashCode and expiresAt run without a suspension point.
RequestOtpStart(r, rawPhone, code) ==
  LET phone == normalizePhone(rawPhone) IN
  /\ req[r].pc = "idle"
  /\ Len(otpCodes) < MaxOtps
  /\ rate' = RateAfter(phone)
  /\ UNCHANGED <<raceFrame, now, otpCodes, users, apiKeys>>
  /\ IF checkRateLimit(phone) = Null
       THEN /\ response' = [http |-> 429, error |-> RateLimitError]
            /\ UNCHANGED <<req, admitted>>
       ELSE /\ admitted' = [admitted EXCEPT ![phone] = Append(@, now)]
            /\ LoginContinue(r, "o_create",
                 [phone |-> phone, codeHash |-> hashCode(code),
                  expiresAt |-> now + otpExpMs])

\* await prisma.otpCode.create of requestOtp commits.
RequestOtpCreate(r) ==
  /\ req[r].pc = "o_create"
  /\ otpCodes' = Append(otpCodes,
       [phone |-> req[r].snap.phone, codeHash |-> req[r].snap.codeHash,
        expiresAt |-> req[r].snap.expiresAt, createdAt |-> now,
        attempts |-> 0, usedAt |-> Null])
  /\ LoginContinue(r, "o_sms", req[r].snap)
  /\ UNCHANGED <<raceFrame, now, rate, admitted, users, apiKeys>>

\* The SMS is sent and the handler answers.
RequestOtpSend(r) ==
  /\ req[r].pc = "o_sms"
  /\ Answer(r, [http |-> 200, success |-> TRUE])
  /\ UNCHANGED <<raceFrame, now, rate, admitted, otpCodes, users, apiKeys>>

\* verifyOtp up to the result of its findFirst.
VerifyOtpFind(r, rawPhone, code) ==
  LET phone == normalizePhone(rawPhone) IN
  /\ req[r].pc = "idle"
  /\ UNCHANGED <<raceFrame, now, rate, admitted, otpCodes, users, apiKeys>>
  /\ IF FindLatestOtp(phone) = {}
       THEN /\ response' = [http |-> 400, error |-> OtpNotFoundError]
            /\ UNCHANGED req
       ELSE \E i \in FindLatestOtp(phone) :
              LoginContinue(r, "l_update",
                [phone |-> phone, code |-> code, id |-> i, record |-> otpCodes[i]])

\* The update of verifyOtp commits, written from the record findFirst
\* returned.
VerifyOtpUpdate(r) ==
  LET locals == req[r].snap
      ok == locals.record.codeHash = hashCode(locals.code)
  IN
  /\ req[r].pc = "l_update"
  /\ otpCodes' = [otpCodes EXCEPT ![locals.id] = VerifiedOtp(locals.record, ok)]
  /\ IF ok THEN LoginContinue(r, "l_user", locals)
     ELSE Answer(r, [http |-> 400, error |-> InvalidOtpError])
  /\ UNCHANGED <<raceFrame, now, rate, admitted, users, apiKeys>>

\* user.findUnique({ where: { phone } }) of verifyOtp.
VerifyOtpFindUser(r) ==
  /\ req[r].pc = "l_user"
  /\ IF \E u \in 1..Len(users) : users[u].phone = req[r].snap.phone
       THEN LoginContinue(r, "l_key", req[r].snap)
       ELSE LoginContinue(r, "l_create", req[r].snap)
  /\ UNCHANGED <<raceFrame, now, rate, admitted, otpCodes, users, apiKeys>>

\* user.create of verifyOtp: phone is unique, so the create of a phone that
\* has a row by now fails and the handler answers 400.
VerifyOtpCreateUser(r) ==
  /\ req[r].pc = "l_create"
  /\ IF \E u \in 1..Len(users) : users[u].phone = req[r].snap.phone
       THEN /\ Answer(r, [http |-> 400, error |-> UniqueConstraintError])
            /\ UNCHANGED users
       ELSE /\ users' = UsersAfterLogin(req[r].snap.phone)
            /\ LoginContinue(r, "l_key", req[r].snap)
  /\ UNCHANGED <<raceFrame, now, rate, admitted, otpCodes, apiKeys>>

\* apiKey.create of verifyOtp commits and the handler answers.
VerifyOtpCreateKey(r) ==
  LET user == UserByPhone(users, req[r].snap.phone)
      apiKeyPlain == randomKey(Len(apiKeys) + 1)
  IN
  /\ req[r].pc = "l_key"
  /\ apiKeys' = Append(apiKeys, NewApiKey(apiKeyPlain, user.id, "login"))
  /\ Answer(r, LoginResponseBody(user, apiKeyPlain))
  /\ UNCHANGED <<raceFrame, now, rate, admitted, otpCodes, users>>

\* apiKey.findUnique({ where: { hash }, include: { user: true } }): the row
\* ids with that hash (hash is unique).
FindKeyByHash(h) == {k \in 1..Len(apiKeys) : apiKeys[k].hash = h}

\* A key check that accepts deactivated keys.
KeyAccepted_IgnoresActive(key) == FindKeyByHash(hash(key)) # {}

\* if (!found || !found.isActive) return { ok: false }
KeyAccepted(key) ==
  \E k \in FindKeyByHash(hash(key)) : apiKeys[k].isActive

\* What verifyAndTouch(key) returns: user is Null for a key without user.
verifyAndTouch(key) ==
  IF ~KeyAccepted(key) THEN [ok |-> FALSE]
  ELSE LET found == apiKeys[CHOOSE k \in FindKeyByHash(hash(key)) : TRUE] IN
       [ok |-> TRUE,
        user |-> IF found.userId = 0 THEN Null
                 ELSE [id |-> found.userId, phone |-> users[found.userId].phone,
                       role |-> users[found.userId].role]]

\* ------------------------------------------------ key check and key routes
\* Routes behind the key check, and two exempt ones.
Routes ==
  {"GET /health", "GET /api/plans/available", "POST /api/apikey",
   "GET /api/apikey", "DELETE /api/apikey", "POST /api/user",
   "POST /api/me/apikey", "POST /api/me/apikey/rotate",
   "DELETE /api/me/apikey/:id"}

\* req.path of a route.
RoutePath(route) ==
  CASE route = "GET /health" -> "/health"
    [] route = "GET /api/plans/available" -> "/api/plans/available"
    [] route \in {"POST /api/apikey", "GET /api/apikey", "DELETE /api/apikey"} -> "/api/apikey"
    [] route = "POST /api/user" -> "/api/user"
    [] route = "POST /api/me/apikey" -> "/api/me/apikey"
    [] route = "POST /api/me/apikey/rotate" -> "/api/me/apikey/rotate"
    [] OTHER -> "/api/me/apikey/:id"

\* The paths the key check lets through unseen.
ExemptPaths ==
  {"/health", "/api/payment/callback", "/api/auth/request-otp",
   "/api/auth/verify-otp", "/openapi.yaml", "/docs"}

\* The routes that call requireMaster first.
MasterOnlyRoutes ==
  {"POST /api/apikey", "GET /api/apikey", "DELETE /api/apikey", "POST /api/user"}

\* Keys a request may carry: none, the configured master key's value, one
\* never issued, and the issued ones.
KeyInputs == {"", MasterKey, "bogus"} \cup {randomKey(n) : n \in 1..MaxKeys}

\* The x-api-key header and the authorization header (scheme, credential)
\* of a request.
HeaderInputs ==
  {[xApiKey |-> k, scheme |-> "", credential |-> ""] : k \in KeyInputs}
    \cup {[xApiKey |-> "", scheme |-> "ApiKey", credential |-> k] :
            k \in {MasterKey, randomKey(1)}}
    \cup {[xApiKey |-> "", scheme |-> "Bearer", credential |-> randomKey(1)],
          [xApiKey |-> "bogus", scheme |-> "ApiKey", credential |-> randomKey(1)]}

\* extractKey(req): "" is undefined.
extractKey(headers) ==
  LET headerKey == headers.xApiKey
      authKey == IF headers.scheme = "ApiKey" THEN headers.credential ELSE ""
  IN IF headerKey # "" THEN headerKey ELSE authKey

\* A master test that takes any key when no master key is configured.
isMaster_Unconfigured(key) == key # "" /\ (masterKey = "" \/ key = masterKey)

\* isMaster(key)
isMaster(key) ==
  IF key = "" \/ masterKey = "" THEN FALSE ELSE key = masterKey

\* apiKey.update({ data: { lastUsedAt: new Date() } }) of verifyAndTouch.
Touched(key) ==
  IF ~KeyAccepted(key) THEN apiKeys
  ELSE [apiKeys EXCEPT ![CHOOSE k \in FindKeyByHash(hash(key)) : TRUE].lastUsedAt = <<now>>]

\* Rows with data: { isActive: false } written to row id.
Deactivated(keys, id) == [keys EXCEPT ![id].isActive = FALSE]

\* A deactivateForUser that does not look at the owner.
deactivateForUser_AnyOwner(keys, id, userId) ==
  IF id \notin 1..Len(keys) THEN [ok |-> FALSE, keys |-> keys]
  ELSE [ok |-> TRUE, keys |-> Deactivated(keys, id)]

\* deactivateForUser(id, userId): what it returns and the rows it leaves.
deactivateForUser(keys, id, userId) ==
  IF id \notin 1..Len(keys) \/ keys[id].userId # userId
    THEN [ok |-> FALSE, keys |-> keys]
    ELSE [ok |-> TRUE, keys |-> Deactivated(keys, id)]

\* list(): the selected columns of every row.
ListedKeys(keys) ==
  [k \in 1..Len(keys) |->
     [id |-> k, label |-> keys[k].label, isActive |-> keys[k].isActive,
      lastUsedAt |-> keys[k].lastUsedAt]]

Unauthorized(message) == [http |-> 401, by |-> "middleware", message |-> message]
Forbidden(route) == [http |-> 403, by |-> route, message |-> "Master API key required"]

\* The handler of `route`, reached with the tables `keys` the key check
\* left, the key and the user the key check attached (Null for none): the
\* answer and the tables it leaves.
RouteOutcome(route, key, user, keys, id, phone) ==
  LET plain == randomKey(Len(keys) + 1)
      answer(http, body) == [http |-> http, by |-> route, body |-> body]
      same(r) == [response |-> r, apiKeys |-> keys, users |-> users]
      userRequired == same([http |-> 401, by |-> route, message |-> "User API key required"])
      notFound == same([http |-> 404, by |-> route, message |-> "Key not found"])
  IN
  CASE route \in {"GET /health", "GET /api/plans/available"} -> same(answer(200, Null))
    [] route \in MasterOnlyRoutes /\ ~isMaster(key) -> same(Forbidden(route))
    [] route = "POST /api/apikey" /\ isMaster(key) ->
         [response |-> [http |-> 201, by |-> route, id |-> Len(keys) + 1, key |-> plain],
          apiKeys |-> Append(keys, NewApiKey(plain, 0, "")),
          users |-> users]
    [] route = "GET /api/apikey" /\ isMaster(key) -> same(answer(200, [keys |-> ListedKeys(keys)]))
    [] route = "DELETE /api/apikey" /\ isMaster(key) ->
         IF id \notin 1..Len(keys) THEN notFound
         ELSE [response |-> answer(200, [success |-> TRUE]),
               apiKeys |-> Deactivated(keys, id), users |-> users]
    [] route = "POST /api/user" /\ isMaster(key) ->
         IF \E u \in 1..Len(users) : users[u].phone = phone
           THEN same([http |-> 400, by |-> route, message |-> "Unique constraint failed"])
           ELSE [response |-> answer(200, [id |-> Len(users) + 1, phone |-> phone, role |-> "USER"]),
                 apiKeys |-> keys,
                 users |-> Append(users, [phone |-> phone, role |-> "USER"])]
    [] route = "POST /api/me/apikey" ->
         IF user = Null THEN userRequired
         ELSE [response |-> [http |-> 201, by |-> route, id |-> Len(keys) + 1, key |-> plain],
               apiKeys |-> Append(keys, NewApiKey(plain, user.id, "")),
               users |-> users]
    [] route = "POST /api/me/apikey/rotate" ->
         IF user = Null THEN userRequired
         ELSE IF ~deactivateForUser(keys, id, user.id).ok THEN notFound
         ELSE [response |-> [http |-> 200, by |-> route, id |-> Len(keys) + 1, key |-> plain],
               apiKeys |-> Append(deactivateForUser(keys, id, user.id).keys,
                                  NewApiKey(plain, user.id, "rotated")),
               users |-> users]
    [] OTHER ->
         IF user = Null THEN userRequired
         ELSE IF ~deactivateForUser(keys, id, user.id).ok THEN notFound
         ELSE [response |-> answer(200, [success |-> TRUE]),
               apiKeys |-> deactivateForUser(keys, id, user.id).keys, users |-> users]

\* A request to `route`: the key check of app.use, then the route's handler.
Handle(route, headers, id, phone) ==
  LET key == extractKey(headers)
      exempt == RoutePath(route) \in ExemptPaths
      checked == ~exempt /\ ~isMaster(key) /\ key # ""
      result == verifyAndTouch(key)
      user == IF checked /\ result.ok THEN result.user ELSE Null
      keys == IF checked THEN Touched(key) ELSE apiKeys
      outcome == RouteOutcome(route, key, user, keys, id, phone)
  IN
  /\ UNCHANGED <<paymentVars, sideLog, now, rate, otpCodes, admitted>>
  /\ IF ~exempt /\ ~isMaster(key) /\ key = ""
       THEN /\ response' = Unauthorized("Missing API key")
            /\ UNCHANGED <<apiKeys, users>>
     ELSE IF checked /\ ~result.ok
       THEN /\ response' = Unauthorized("Invalid API key")
            /\ UNCHANGED <<apiKeys, users>>
     ELSE /\ Len(outcome.apiKeys) <= MaxKeys
          /\ response' = outcome.response
          /\ apiKeys' = outcome.apiKeys
          /\ users' = outcome.users

\* Phones POST /api/user is sent.
UserPhoneInputs == {"0935"}

\* The process starts with or without MASTER_API_KEY in its environment.
KeyInit ==
  /\ Boot
  /\ masterKey \in {"", MasterKey}

\* The ids a request to `route` may name (routes without an id get 1).
IdInputs(route) ==
  IF route \in {"DELETE /api/apikey", "POST /api/me/apikey/rotate",
                "DELETE /api/me/apikey/:id"}
    THEN 1..MaxKeys ELSE {1}

KeyNext ==
  \/ Len(otpCodes) < MaxKeyLogins /\ RequestOtp("0912", "1111")
  \/ VerifyOtp("0912", "1111")
  \/ \E route \in Routes, headers \in HeaderInputs :
       \E id \in IdInputs(route), phone \in UserPhoneInputs :
         Handle(route, headers, id, phone)

KeySpec == KeyInit /\ [][KeyNext]_vars

AuthNext ==
  \/ AuthTick
  \/ \E p \in PhoneInputs, c \in CodeInputs : RequestOtp(p, c)
  \/ \E p \in PhoneInputs, c \in CodeInputs : VerifyOtp(p, c)

AuthSpec == Init /\ [][AuthNext]_vars

\* The forms in which OTP requests and verify requests carry the phones:
\* no form is used by both.
RequestForms == {"+98912", " 0912", "+98935"}
VerifyForms == {"0912", " +98912 ", "0935"}

\* Logins of two phones written in several forms, the SMS provider working
\* or failing.
PhoneNext ==
  \/ AuthTick
  \/ /\ Len(otpCodes) < MaxPhoneOtps
     /\ \E p \in RequestForms, smsOk \in BOOLEAN : RequestOtpWith(p, "1111", smsOk)
  \/ \E p \in VerifyForms, c \in CodeInputs : VerifyOtp(p, c)

PhoneSpec == Init /\ [][PhoneNext]_vars

\* Login calls of one phone handled concurrently: the steps of different
\* calls interleave at their awaits, while the clock runs.
RaceNext ==
  \/ AuthTick
  \/ \E r \in Requests : RequestOtpStart(r, "0912", "1111")
  \/ \E r \in Requests : RequestOtpCreate(r)
  \/ \E r \in Requests : RequestOtpSend(r)
  \/ \E r \in Requests : VerifyOtpFind(r, "+98912", "1111")
  \/ \E r \in Requests : VerifyOtpUpdate(r)
  \/ \E r \in Requests : VerifyOtpFindUser(r)
  \/ \E r \in Requests : VerifyOtpCreateUser(r)
  \/ \E r \in Requests : VerifyOtpCreateKey(r)

RaceSpec == Init /\ [][RaceNext]_vars

\* ------------------------------------- the gateway functions on their own
\* What getPaymentGateway hands back for a name: the adapter its factory
\* builds; for an inherited key whatever calling that member yields
\* (Object() is an empty object, Object.prototype is not callable); the
\* ValidationError when the lookup is undefined.
GetPaymentGatewayOutcome(registry, gatewayName) ==
  LET gatewayFactory == RegistryLookup(registry, ToLowerCase(gatewayName)) IN
  IF gatewayFactory = Null THEN Thrown(UnsupportedGateway(registry))
  ELSE IF "factory" \in DOMAIN gatewayFactory
    THEN Returned([adapter |-> gatewayFactory.factory])
  ELSE IF gatewayFactory.inherited = "__proto__" THEN Thrown(TypeError)
  ELSE Returned([object |-> gatewayFactory.inherited])

\* Gateway names tried on getPaymentGateway.
GatewayNameInputs ==
  {"zarinpal", "Zarinpal", "mock", "MOCK", "zibal", "Zibal", "paypal", "",
   "constructor", "Constructor", "toString", "__proto__"}

\* Status codes the Zarinpal verify endpoint answers with (data.code).
ZarinpalCodes == {"100", "101", "-9", "-51", "-53"}

\* Result codes the Zibal verify endpoint answers with (data.result);
\* 201 reports a payment that was verified before.
ZibalResults == {"100", "201", "202", "102", "203"}

\* Reference numbers a provider answers with.
ProviderRefs == {"7001", "7002"}

\* The provider's answers an adapter may receive.
ProviderAnswers(adapter) ==
  {[code |-> c, ref |-> f] :
     c \in (IF adapter = "zarinpal" THEN ZarinpalCodes
            ELSE IF adapter = "zibal" THEN ZibalResults ELSE {"100"}),
     f \in ProviderRefs}

\* data.result !== 100 is the only test of ZibalGateway.verifyPayment.
ZibalSuccess(result) == result = "100"

\* data.code !== 100 && data.code !== 101 of ZarinpalGateway.verifyPayment.
ZarinpalSuccess(code) == code = "100" \/ code = "101"

\* Requests handed to an adapter's verifyPayment.
VerifyRequestInputs ==
  {[authority |-> <<"A", 1>>, amount |-> Plans["p1"].price],
   [authority |-> <<"A", 2>>, amount |-> Plans["p2"].price]}

\* verifyPayment of the adapter on the provider's answer.
AdapterVerifyOutcome(adapter, answer) ==
  IF adapter = "mock"
    THEN Returned([refId |-> <<"REF", now>>, cardPan |-> "1234-5678-****-****"])
  ELSE IF adapter = "zarinpal"
    THEN IF ZarinpalSuccess(answer.code)
           THEN Returned([refId |-> answer.ref, cardPan |-> "6037-99**-****-1234"])
           ELSE Thrown(PaymentGatewayError(answer.code))
  ELSE IF ZibalSuccess(answer.code)
         THEN Returned([refId |-> answer.ref, cardPan |-> "6037-99**-****-1234"])
         ELSE Thrown(PaymentGatewayError(answer.code))

\* getPaymentGateway is called with a name on one of the registries.
ResolveGateway(registry, gatewayName) ==
  /\ probe' = [registry |-> registry, gatewayName |-> gatewayName,
               resolved |-> GetPaymentGatewayOutcome(Registries[registry], gatewayName),
               request |-> Null, answer |-> Null, verified |-> Null]
  /\ UNCHANGED <<now, subscriptions, payments, req, adapterCalls, createCalls,
                 activations, nVerify, response, rate, otpCodes, users,
                 apiKeys, admitted, masterKey, hookVars, sideLog>>

\* verifyPayment of the adapter just resolved is called and the provider
\* answers.
AdapterVerifyPayment(request, answer) ==
  /\ probe # Null
  /\ probe.verified = Null
  /\ "returned" \in DOMAIN probe.resolved
  /\ "adapter" \in DOMAIN probe.resolved.returned
  /\ answer \in ProviderAnswers(probe.resolved.returned.adapter)
  /\ probe' = [probe EXCEPT
                 !.request = request,
                 !.answer = answer,
                 !.verified = AdapterVerifyOutcome(probe.resolved.returned.adapter, answer)]
  /\ UNCHANGED <<now, subscriptions, payments, req, adapterCalls, createCalls,
                 activations, nVerify, response, rate, otpCodes, users,
                 apiKeys, admitted, masterKey, hookVars, sideLog>>

GatewayNext ==
  \/ \E g \in DOMAIN Registries, n \in GatewayNameInputs : ResolveGateway(g, n)
  \/ \E q \in VerifyRequestInputs,
        a \in UNION {ProviderAnswers(ad) : ad \in routersGatewayRegistry} :
       AdapterVerifyPayment(q, a)

GatewaySpec == Init /\ [][GatewayNext]_vars

\* ---------------------------------------------------------- specification
\* Authorities a verify request may carry: those issued, and an unknown one.
AuthorityInputs ==
  {payments[i].authority : i \in 1..Len(payments)} \cup {<<"A", 0>>}

\* Subscription ids a cancel call may carry (those not yet created name no
\* subscription).
SubscriptionIdInputs == 1..MaxSubs

Next ==
  \/ Tick
  \/ \E u \in UserIdInputs, p \in PlanIdInputs, g \in GatewayInputs,
        ar \in AutoRenewInputs :
       CreateSubscription(u, p, g, ar)
  \/ \E s \in SubscriptionIdInputs : CancelSubscription(s)
  \/ \E r \in Requests, a \in AuthorityInputs, st \in StatusInputs :
       StartVerify(r, a, st)
  \/ \E r \in Requests : CancelWrite(r)
  \/ \E r \in Requests : GatewayVerify(r)
  \/ \E r \in Requests : FailWrite(r)
  \/ \E r \in Requests : CompleteWrite(r)
  \/ \E r \in Requests : ActivateFind(r)
  \/ \E r \in Requests : ActivateWrite(r)
  \/ \E r \in Requests : ActivateSideEffects(r)

\* Requests handled concurrently: steps of different requests interleave.
Spec == Init /\ [][Next]_vars

\* No request is in flight.
Quiet == \A r \in Requests : req[r].pc = "idle"

\* Requests handled one after the other: a request starts only when no
\* other is in flight.
SeqNext ==
  \/ Tick
  \/ Quiet /\ \E u \in UserIdInputs, p \in PlanIdInputs, g \in GatewayInputs,
                ar \in AutoRenewInputs :
       CreateSubscription(u, p, g, ar)
  \/ Quiet /\ \E s \in SubscriptionIdInputs : CancelSubscription(s)
  \/ Quiet /\ \E r \in Requests, a \in AuthorityInputs, st \in StatusInputs :
       StartVerify(r, a, st)
  \/ \E r \in Requests : CancelWrite(r)
  \/ \E r \in Requests : GatewayVerify(r)
  \/ \E r \in Requests : FailWrite(r)
  \/ \E r \in Requests : CompleteWrite(r)
  \/ \E r \in Requests : ActivateFind(r)
  \/ \E r \in Requests : ActivateWrite(r)
  \/ \E r \in Requests : ActivateSideEffects(r)

SeqSpec == Init /\ [][SeqNext]_vars

\* The end-to-end scenario of the smoke test: subscriptions of an active
\* plan are created with gateway "mock" and verified with status "OK", one
\* request after the other, while the clock runs.
ScenarioNext ==
  \/ Tick
  \/ Quiet /\ \E u \in UserIdInputs, p \in PlanIdInputs, ar \in AutoRenewInputs :
       CreateSubscription(u, p, "mock", ar)
  \/ Quiet /\ \E r \in Requests, a \in AuthorityInputs \ {<<"A", 0>>} :
       StartVerify(r, a, "OK")
  \/ \E r \in Requests : GatewayVerify(r)
  \/ \E r \in Requests : CompleteWrite(r)
  \/ \E r \in Requests : ActivateFind(r)
  \/ \E r \in Requests : ActivateWrite(r)
  \/ \E r \in Requests : ActivateSideEffects(r)

ScenarioSpec == Init /\ [][ScenarioNext]_vars

\* Users register webhooks and switch them on and off; then a subscription
\* of user u1 is created with gateway "mock" and verified, and OTPs are
\* requested, while SMS, email, the audit write and the webhook deliveries
\* work or fail.
SideNext ==
  \/ /\ subscriptions = <<>>
     /\ \E u \in HookUserInputs, types \in EventTypeInputs : CreateWebhook(u, types)
  \/ /\ subscriptions = <<>>
     /\ \E u \in HookUserInputs, id \in 1..MaxHooks, active \in BOOLEAN :
          UpdateWebhook(u, id, active)
  \/ /\ Quiet
     /\ Len(subscriptions) < MaxSideSubs
     /\ \E smsOk \in BOOLEAN, emailOk \in BOOLEAN :
          CreateSubscriptionWith("u1", "p1", "mock", TRUE, smsOk, emailOk)
  \/ /\ Quiet
     /\ nVerify < MaxSideVerifies
     /\ \E r \in Requests, a \in AuthorityInputs \ {<<"A", 0>>} :
          StartVerify(r, a, "OK")
  \/ \E r \in Requests : GatewayVerify(r)
  \/ \E r \in Requests : CompleteWrite(r)
  \/ \E r \in Requests : ActivateFind(r)
  \/ \E r \in Requests : ActivateWrite(r)
  \/ \E r \in Requests, smsOk \in BOOLEAN, emailOk \in BOOLEAN,
        auditOk \in BOOLEAN, hookOutcomes \in HookOutcomeInputs :
       ActivateSideEffectsWith(r, smsOk, emailOk, auditOk, hookOutcomes)
  \/ \E smsOk \in BOOLEAN :
       Len(otpCodes) < MaxKeyLogins /\ RequestOtpWith("0912", "1111", smsOk)

SideSpec == Init /\ [][SideNext]_vars

\* ------------------------------------------------------------------ claims
PaymentIds == 1..Len(payments)
SubscriptionIds == 1..Len(subscriptions)
InVerify(r) == req[r].pc \in {"v_gateway", "v_complete", "v_fail"}
InActivate(r) == req[r].pc \in {"a_find", "a_write", "a_side"}
\* The latest answer is a verify handler's res.json (it carries `success`).
IsVerifyAnswer == {"success", "payment"} \subseteq DOMAIN response
\* The latest answer is a handler's catch block.
IsErrorAnswer == "error" \in DOMAIN response
\* The latest answer is the create handler's res.json.
IsCreateAnswer == "subscription" \in DOMAIN response

\* C1: with requests handled one after the other, whenever a payment with
\* the requested authority is stored COMPLETED, a verifyPayment call whose
\* status is neither 'NOK' nor 'cancel' does not go on to the adapter.
C1_CompletedIsNotVerifiedAgain ==
  \A r \in Requests :
    req[r].pc = "v_gateway" =>
      ~ \E i \in PaymentIds :
          /\ payments[i].authority = req[r].verifyRequest.authority
          /\ payments[i].status = "COMPLETED"

\* C2: once a payment row is COMPLETED or FAILED no step changes its status.
C2_TerminalStatus ==
  [][\A i \in PaymentIds :
       payments[i].status \in {"COMPLETED", "FAILED"} =>
         payments'[i].status = payments[i].status]_vars

\* C3: the adapter's verifyPayment is invoked at most once per authority.
C3_AtMostOneAdapterCall ==
  \A a \in Authorities : adapterCalls[a] <= 1

\* C4: nothing holds a verifyPayment call back for another one. A call is
\* at or past the adapter only on the word of its own read, which showed
\* the payment not COMPLETED, and no call returns a payment that is not
\* COMPLETED: a call that read the payment as not COMPLETED went on to the
\* adapter or threw, whatever other calls were doing to the same payment.
C4_NoCallHeldBack ==
  /\ \A r \in Requests : InVerify(r) => req[r].snap.status # "COMPLETED"
  /\ IsVerifyAnswer => response.payment.status = "COMPLETED"

\* C4 (the interleaving): two calls on one payment have both invoked the
\* adapter, each on a read made before either wrote, and the payment is
\* still stored PENDING.
C4_BothCallsReachedAdapter ==
  \E r, o \in Requests :
    /\ r # o
    /\ req[r].pc = "v_complete" /\ req[o].pc = "v_complete"
    /\ req[r].pid = req[o].pid
    /\ req[r].snap.status = "PENDING" /\ req[o].snap.status = "PENDING"
    /\ payments[req[r].pid].status = "PENDING"
    /\ adapterCalls[payments[req[r].pid].authority] = 2

\* C5: activateSubscription runs only in a verify request whose own
\* verifyPayment call verified the payment with the adapter: a repeated
\* verify of an already-COMPLETED payment does not activate again.
C5_ActivationOnlyAfterOwnVerification ==
  \A r \in Requests : InActivate(r) => req[r].calls = 1

\* C6: a payment becomes COMPLETED only by the success write of a call
\* whose adapter verifyPayment returned for that payment's stored
\* authority and stored amount.
C6_CompletedOnlyByAdapterSuccess ==
  [][\A i \in 1..Len(payments') :
       (/\ payments'[i].status = "COMPLETED"
        /\ (i > Len(payments) \/ payments[i].status # "COMPLETED"))
       => \E r \in Requests :
            /\ req[r].pc = "v_complete"
            /\ req'[r].pc # "v_complete"
            /\ req[r].pid = i
            /\ req[r].calls = 1
            /\ req[r].verifyResponse # Null
            /\ req[r].verifyRequest =
                 [authority |-> payments[i].authority,
                  amount |-> payments[i].amount]]_vars

C6_Witness ==
  \E i \in PaymentIds :
    /\ payments[i].status = "COMPLETED"
    /\ adapterCalls[payments[i].authority] >= 1
    /\ payments[i].amount = Plans[subscriptions[payments[i].subscriptionId].planId].price

\* C7: a call takes the cancellation path exactly when its status is 'NOK'
\* or 'cancel'; that path writes FAILED, answers with the
\* PaymentGatewayError of the cancellation, and has not invoked the adapter.
C7_CancelPath ==
  [][\A r \in Requests :
       /\ req'[r].pc = "v_cancel" => req'[r].status \in {"NOK", "cancel"}
       /\ req'[r].pc = "v_gateway" => req'[r].status \notin {"NOK", "cancel"}
       /\ (req[r].pc = "v_cancel" /\ req'[r].pc = "idle") =>
            /\ payments'[req[r].pid].status = "FAILED"
            /\ response' = ErrorResponseBody(PaymentGatewayError("cancelled"))
            /\ req[r].calls = 0
            /\ adapterCalls' = adapterCalls]_vars

C7_Witness ==
  /\ response = ErrorResponseBody(PaymentGatewayError("cancelled"))
  /\ \E i \in PaymentIds :
       /\ payments[i].status = "FAILED"
       /\ adapterCalls[payments[i].authority] = 0

\* C8: when the adapter throws, the call writes FAILED, the handler answers
\* with the very error the adapter threw, the call has invoked the adapter
\* exactly once, and nothing is activated.
C8_AdapterFailure ==
  [][\A r \in Requests :
       /\ req'[r].pc = "v_fail" =>
            /\ req'[r].err \in VerifyErrors(getPaymentGateway(req'[r].snap.gateway))
            /\ req'[r].calls = 1
       /\ (req[r].pc = "v_fail" /\ req'[r].pc # "v_fail") =>
            /\ req'[r].pc = "idle"
            /\ payments'[req[r].pid].status = "FAILED"
            /\ response' = ErrorResponseBody(req[r].err)
            /\ subscriptions' = subscriptions
            /\ activations' = activations]_vars

C8_Witness ==
  /\ response = ErrorResponseBody(PaymentGatewayError("-51"))
  /\ \E i \in PaymentIds :
       /\ payments[i].status = "FAILED"
       /\ adapterCalls[payments[i].authority] = 1
       /\ subscriptions[payments[i].subscriptionId].status = "PENDING"

\* C9: a subscription row is written ACTIVE only by the activation write
\* of a verify request whose verifyPayment returned a COMPLETED payment of
\* that subscription.
C9_ActiveOnlyByVerifiedPayment ==
  [][\A s \in 1..Len(subscriptions') :
       (/\ subscriptions'[s].status = "ACTIVE"
        /\ (s > Len(subscriptions) \/ subscriptions'[s] # subscriptions[s]))
       => \E r \in Requests :
            /\ req[r].pc = "a_write"
            /\ req[r].result.status = "COMPLETED"
            /\ req[r].result.subscriptionId = s]_vars

C9_Witness ==
  \E s \in SubscriptionIds :
    /\ subscriptions[s].status = "ACTIVE"
    /\ activations[s] = 1
    /\ \E i \in PaymentIds :
         payments[i].subscriptionId = s /\ payments[i].status = "COMPLETED"

\* C10: an ACTIVE subscription's endDate is its startDate plus the plan's
\* duration in days, exactly.
C10_EndDateExact ==
  \A s \in SubscriptionIds :
    subscriptions[s].status = "ACTIVE" =>
      subscriptions[s].endDate =
        AddDays(subscriptions[s].startDate, Plans[subscriptions[s].planId].duration)

\* C11 (as stated): in the end-to-end scenario an ACTIVE subscription's
\* endDate is its creation time plus the plan's duration in days, however
\* much time passed between creation and verification.
C11_EndDateFromCreation ==
  \A s \in SubscriptionIds :
    subscriptions[s].status = "ACTIVE" =>
      subscriptions[s].endDate =
        AddDays(subscriptions[s].createdAt, Plans[subscriptions[s].planId].duration)

\* C11 (amended): in the end-to-end scenario every verify is answered with
\* success = true and payment.status = COMPLETED, and the subscription is
\* then ACTIVE with endDate equal to a clock reading taken during
\* activation (not before the payment's paidAt, not after the present)
\* plus the plan's duration in days.
C11_EndToEnd ==
  /\ IsErrorAnswer =>
       response.error \in {NotFoundError("Plan"), PlanUnavailableError}
  /\ IsVerifyAnswer =>
    /\ response.http = 200
    /\ response.success
    /\ response.payment.status = "COMPLETED"
    /\ LET sub == subscriptions[response.subscriptionId] IN
       /\ sub.status = "ACTIVE"
       /\ \E t \in response.payment.paidAt.ms .. now :
            sub.endDate = AddDays(DateAt(t), Plans[sub.planId].duration)

\* C11: a verify answered after the clock moved on from the creation of
\* the subscription.
C11_Witness ==
  /\ IsVerifyAnswer
  /\ response.success
  /\ LET sub == subscriptions[response.subscriptionId] IN
       /\ sub.status = "ACTIVE"
       /\ sub.createdAt.ms < sub.endDate.ms
       /\ sub.endDate.day = Plans[sub.planId].duration
\* C12: cancelSubscription, whatever the subscription's status, writes
\* CANCELLED and autoRenew = false and leaves startDate, endDate, planId,
\* userId, every other subscription and every Payment row as they were;
\* for an id that names no subscription it throws NotFoundError and
\* changes no row.
C12_CancelFrame ==
  [][\A s \in SubscriptionIdInputs :
       CancelSubscription(s) =>
         /\ payments' = payments
         /\ Len(subscriptions') = Len(subscriptions)
         /\ IF s \in SubscriptionIds
              THEN /\ subscriptions'[s].status = "CANCELLED"
                   /\ subscriptions'[s].autoRenew = FALSE
                   /\ subscriptions'[s].startDate = subscriptions[s].startDate
                   /\ subscriptions'[s].endDate = subscriptions[s].endDate
                   /\ subscriptions'[s].planId = subscriptions[s].planId
                   /\ subscriptions'[s].userId = subscriptions[s].userId
                   /\ \A o \in SubscriptionIds \ {s} :
                        subscriptions'[o] = subscriptions[o]
                   /\ response' = Returned(subscriptions'[s])
              ELSE /\ subscriptions' = subscriptions
                   /\ response' = Thrown(NotFoundError("Subscription"))]_vars

\* C12: an activated subscription was cancelled and kept its dates.
C12_Witness ==
  /\ "returned" \in DOMAIN response
  /\ response.returned.status = "CANCELLED"
  /\ response.returned.autoRenew = FALSE
  /\ response.returned.endDate # Null
  /\ response.returned.startDate # Null
  /\ \E i \in PaymentIds : payments[i].status = "COMPLETED"
\* C13: createSubscription with a planId that names no plan fails with
\* NotFoundError, and with a switched-off plan fails with an error; in both
\* cases no Subscription row, no Payment row and no gateway call is made.
\* Otherwise the created subscription is PENDING, and the created payment
\* is PENDING, belongs to it and has the plan's price as its amount.
C13_CreateChecksPlan ==
  [][\A u \in UserIdInputs, p \in PlanIdInputs, g \in GatewayInputs,
        ar \in AutoRenewInputs :
       CreateSubscription(u, p, g, ar) =>
         IF p \notin PlanIds \/ ~Plans[p].isActive
           THEN /\ IsErrorAnswer'
                /\ p \notin PlanIds => response'.error = NotFoundError("Plan")
                /\ subscriptions' = subscriptions
                /\ payments' = payments
                /\ createCalls' = createCalls
           ELSE /\ Len(subscriptions') = Len(subscriptions) + 1
                /\ subscriptions'[Len(subscriptions')].status = "PENDING"
                /\ subscriptions'[Len(subscriptions')].planId = p
                /\ \A i \in 1..Len(payments') :
                     i > Len(payments) =>
                       /\ payments'[i].status = "PENDING"
                       /\ payments'[i].amount = Plans[p].price
                       /\ payments'[i].subscriptionId = Len(subscriptions')]_vars

\* C13: after one subscription with its payment was created, a create
\* request for a switched-off plan was refused and left the tables alone.
C13_Witness ==
  /\ IsErrorAnswer
  /\ response.error = PlanUnavailableError
  /\ Len(subscriptions) = 1
  /\ Len(payments) = 1
  /\ createCalls = 1
  /\ payments[1].status = "PENDING"
  /\ payments[1].amount = Plans[subscriptions[1].planId].price

\* Payment rows of subscription s.
PaymentsOf(s) == {i \in PaymentIds : payments[i].subscriptionId = s}

\* C14: when payment creation fails inside createSubscription (the registry
\* rejects the gateway name, or the adapter's createPayment throws) the
\* error is answered to the caller and the subscription row of that call
\* stays behind, PENDING, with no Payment row; afterwards nothing gives
\* such a subscription a payment or activates it.
C14_FailedPaymentLeavesPending ==
  [][/\ \A u \in UserIdInputs, p \in PlanIdInputs, g \in GatewayInputs,
          ar \in AutoRenewInputs :
         (CreateSubscription(u, p, g, ar) /\ p \in PlanIds /\ Plans[p].isActive
            /\ ~IsCreateAnswer') =>
           /\ IsErrorAnswer'
           /\ payments' = payments
           /\ response'.error \in
                {ValidationError} \cup {PaymentGatewayError(c) : c \in ProviderErrorCodes}
           /\ Len(subscriptions') = Len(subscriptions) + 1
           /\ subscriptions'[Len(subscriptions')].status = "PENDING"
           /\ \A i \in PaymentIds : payments[i].subscriptionId # Len(subscriptions')
     /\ \A s \in SubscriptionIds :
          PaymentsOf(s) = {} =>
            /\ \A i \in 1..Len(payments') : payments'[i].subscriptionId # s
            /\ subscriptions'[s].status \in {subscriptions[s].status, "CANCELLED"}
            /\ subscriptions[s].status \in {"PENDING", "CANCELLED"}]_vars

\* C14: the adapter's createPayment threw and the subscription of that
\* call is stored PENDING without a payment.
C14_Witness ==
  /\ IsErrorAnswer
  /\ response.error = PaymentGatewayError("-51")
  /\ createCalls = 1
  /\ Len(subscriptions) = 1
  /\ subscriptions[1].status = "PENDING"
  /\ payments = <<>>
\* C15: getPaymentGateway(name) returns the adapter of the lower-cased name
\* when that is a registered name, and for every other string, the names
\* of inherited object properties included, throws the ValidationError
\* that lists the registered names.
C15_ResolvesIffRegistered ==
  probe # Null =>
    IF ToLowerCase(probe.gatewayName) \in Registries[probe.registry]
      THEN probe.resolved =
             Returned([adapter |-> ToLowerCase(probe.gatewayName)])
      ELSE probe.resolved =
             Thrown(UnsupportedGateway(Registries[probe.registry]))

\* The provider's code for a payment that was verified before.
AlreadyVerifiedCode(adapter) == IF adapter = "zarinpal" THEN "101" ELSE "201"

\* C16: the verifyPayment of a real provider's adapter returns a result
\* for the provider's success code and for its already-verified code, and
\* throws a PaymentGatewayError carrying the provider's code for any other.
C16_AlreadyVerifiedIsSuccess ==
  (/\ probe # Null
   /\ probe.verified # Null
   /\ probe.resolved.returned.adapter \in {"zarinpal", "zibal"}) =>
    IF probe.answer.code \in {"100", AlreadyVerifiedCode(probe.resolved.returned.adapter)}
      THEN "returned" \in DOMAIN probe.verified
      ELSE probe.verified = Thrown(PaymentGatewayError(probe.answer.code))
\* C17: any two distinct Payment rows carry distinct authorities, also when
\* the mock adapter issued both within one clock millisecond.
C17_AuthorityUnique ==
  \A i, j \in PaymentIds :
    i # j => payments[i].authority # payments[j].authority
\* OtpCode rows of a phone, and the one created last.
OtpsOf(phone) == {i \in 1..Len(otpCodes) : otpCodes[i].phone = phone}
LastOtpOf(phone) == CHOOSE i \in OtpsOf(phone) : \A j \in OtpsOf(phone) : j <= i

\* C18: verifyOtp with the code of the OTP requested last for the phone
\* succeeds while that OTP is unused and unexpired, and fails once that OTP
\* has been used or has expired, whatever OTPs were requested before it and
\* whatever codes were drawn.
C18_OtpUsableOnce ==
  [][\A p \in PhoneInputs, c \in CodeInputs :
       (VerifyOtp(p, c) /\ OtpsOf(normalizePhone(p)) # {}) =>
         LET last == otpCodes[LastOtpOf(normalizePhone(p))] IN
         last.codeHash = hashCode(c) =>
           IF last.usedAt = Null /\ last.expiresAt > now
             THEN "apiKey" \in DOMAIN response'
             ELSE response'.http = 400]_vars

\* The fixed window the admitted calls of a key are in after the first n
\* of them: its start and the calls counted in it.
RECURSIVE WindowAfter(_, _)
WindowAfter(log, n) ==
  IF n = 0 THEN Null
  ELSE LET w == WindowAfter(log, n - 1) IN
       IF w = Null \/ log[n] - w.windowStart > windowMs
         THEN [count |-> 1, windowStart |-> log[n]]
         ELSE [w EXCEPT !.count = @ + 1]

CurrentWindow(key) == WindowAfter(admitted[key], Len(admitted[key]))

\* C19: a requestOtp call is admitted when the key has no window or its
\* window has elapsed (it then opens a new window with count 1), or when
\* fewer than the configured maximum of calls were admitted in the window;
\* the call after the maximum fails with the rate-limit error and leaves
\* everything as it was.
C19_RateLimit ==
  [][\A p \in PhoneInputs, c \in CodeInputs :
       RequestOtp(p, c) =>
         LET key == normalizePhone(p)
             w == CurrentWindow(key)
         IN
         IF w = Null \/ now - w.windowStart > windowMs
           THEN /\ response' = [http |-> 200, success |-> TRUE]
                /\ admitted'[key] = Append(admitted[key], now)
                /\ rate'[key] = [count |-> 1, windowStart |-> now]
         ELSE IF w.count < maxReq
           THEN /\ response' = [http |-> 200, success |-> TRUE]
                /\ admitted'[key] = Append(admitted[key], now)
                /\ rate'[key] = [count |-> w.count + 1, windowStart |-> w.windowStart]
         ELSE /\ response' = [http |-> 429, error |-> RateLimitError]
              /\ admitted' = admitted
              /\ rate' = rate
              /\ otpCodes' = otpCodes]_vars

\* C19: the maximum was admitted in one window and the next call in that
\* window was refused.
C19_Witness ==
  /\ "error" \in DOMAIN response
  /\ response.error = RateLimitError
  /\ \E k \in RateKeys :
       /\ Len(admitted[k]) = maxReq
       /\ rate[k].count = maxReq
       /\ now - rate[k].windowStart <= windowMs

\* Admitted calls of a key in the interval of length windowMs that starts at a.
AdmittedIn(key, a) ==
  Cardinality({i \in 1..Len(admitted[key]) :
                 a <= admitted[key][i] /\ admitted[key][i] <= a + windowMs})

\* C20 (as stated): 2 x max admitted calls in one interval of length
\* windowMs is reachable: when two windows in a row are filled, the second
\* opened at the first millisecond the limiter allows, some interval of
\* length windowMs holds all 2 x max calls.
C20_TwoMaxReachable ==
  \A k \in RateKeys :
    (/\ Len(admitted[k]) = 2 * maxReq
     /\ admitted[k][2 * maxReq] - admitted[k][1] = windowMs + 1) =>
      \E a \in 0..MaxAuthTime : AdmittedIn(k, a) = 2 * maxReq

\* C20 (amended): in any interval of length windowMs at most 2 x max - 1
\* calls of a key are admitted.
C20_FixedWindowBound ==
  \A k \in RateKeys, a \in 0..MaxAuthTime : AdmittedIn(k, a) <= 2 * maxReq - 1

\* C20: 2 x max - 1 calls were admitted within one interval of length
\* windowMs, across a window boundary.
C20_Witness ==
  \E k \in RateKeys, a \in 0..MaxAuthTime :
    /\ AdmittedIn(k, a) = 2 * maxReq - 1
    /\ rate[k].windowStart > admitted[k][1]
\* C21: a verifyOtp made at or after a record's expiresAt leaves that record
\* as it is; when the phone has no unconsumed unexpired record the call
\* fails with 'OTP not found or expired', changes no OtpCode row and creates
\* no user and no API key.
C21_ExpiredUnusable ==
  [][\A p \in PhoneInputs, c \in CodeInputs :
       VerifyOtp(p, c) =>
         /\ \A i \in 1..Len(otpCodes) :
              otpCodes[i].expiresAt <= now => otpCodes'[i] = otpCodes[i]
         /\ (~\E i \in OtpsOf(normalizePhone(p)) :
                otpCodes[i].usedAt = Null /\ otpCodes[i].expiresAt > now) =>
              /\ response' = [http |-> 400, error |-> OtpNotFoundError]
              /\ otpCodes' = otpCodes
              /\ users' = users
              /\ apiKeys' = apiKeys]_vars

\* C21: a verifyOtp made exactly at the expiresAt of an unused record was
\* answered 'OTP not found or expired'.
C21_Witness ==
  /\ "error" \in DOMAIN response
  /\ response.error = OtpNotFoundError
  /\ \E i \in 1..Len(otpCodes) :
       /\ otpCodes[i].usedAt = Null
       /\ otpCodes[i].expiresAt = now
       /\ otpCodes[i].attempts = 0

\* C22: a successful verifyOtp leaves exactly one User row with the phone
\* (creating it only when there was none), appends exactly one ApiKey row,
\* active and owned by that user, and returns a plaintext verifyAndTouch
\* accepts as that user's; a failed verifyOtp creates no user and no key.
C22_LoginMintsKey ==
  [][\A p \in PhoneInputs, c \in CodeInputs :
       VerifyOtp(p, c) =>
         IF "apiKey" \in DOMAIN response'
           THEN LET phone == normalizePhone(p)
                    had == \E u \in 1..Len(users) : users[u].phone = phone
                    key == apiKeys'[Len(apiKeys')]
                IN
                /\ Cardinality({u \in 1..Len(users') : users'[u].phone = phone}) = 1
                /\ Len(users') = Len(users) + (IF had THEN 0 ELSE 1)
                /\ SubSeq(users', 1, Len(users)) = users
                /\ Len(apiKeys') = Len(apiKeys) + 1
                /\ SubSeq(apiKeys', 1, Len(apiKeys)) = apiKeys
                /\ key.isActive
                /\ key.userId = response'.user.id
                /\ users'[key.userId].phone = phone
                /\ \E n \in 1..Len(apiKeys') :
                     /\ response'.apiKey = randomKey(n)
                     /\ verifyAndTouch(randomKey(n))' =
                          [ok |-> TRUE, user |-> response'.user]
           ELSE users' = users /\ apiKeys' = apiKeys]_vars

\* C22: the same phone logged in twice: one user, two keys of that user.
C22_Witness ==
  /\ Len(users) = 1
  /\ Len(apiKeys) = 2
  /\ \A k \in 1..2 : apiKeys[k].userId = 1 /\ apiKeys[k].isActive
  /\ apiKeys[1].hash # apiKeys[2].hash
  /\ "apiKey" \in DOMAIN response

\* C30: a verifyOtp that finds a usable record adds exactly one to that
\* record's attempts, whether the code matched or not, sets its usedAt
\* exactly when the hash of the supplied code equals the stored hash, and
\* changes no other record.
C30_AttemptsCounted ==
  [][\A p \in PhoneInputs, c \in CodeInputs :
       (VerifyOtp(p, c) /\ FindLatestOtp(normalizePhone(p)) # {}) =>
         \E i \in FindLatestOtp(normalizePhone(p)) :
           /\ otpCodes'[i].attempts = otpCodes[i].attempts + 1
           /\ (otpCodes'[i].usedAt # Null) <=> (otpCodes[i].codeHash = hashCode(c))
           /\ otpCodes'[i] = [otpCodes[i] EXCEPT !.attempts = otpCodes'[i].attempts,
                                               !.usedAt = otpCodes'[i].usedAt]
           /\ \A j \in 1..Len(otpCodes) : j # i => otpCodes'[j] = otpCodes[j]]_vars

\* C30: a record took a wrong code and then the right one: two attempts,
\* usedAt set by the second.
C30_Witness ==
  \E i \in 1..Len(otpCodes) :
    /\ otpCodes[i].attempts = 2
    /\ otpCodes[i].usedAt # Null
\* The adapter's reference fields verifyPayment merges into metadata.
ReferenceFields == {"refId", "cardPan", "cardHash", "feeType", "fee"}

\* C29: the update of a successful verification leaves the payment
\* COMPLETED with gatewayTxId equal to the adapter's refId, paidAt and
\* verifiedAt set, and metadata whose keys are those stored before plus the
\* five reference fields: the reference fields hold the adapter's values,
\* every other key keeps its stored value.
C29_CompletedRow ==
  [][\A r \in Requests :
       CompleteWrite(r) =>
         LET stored == payments[req[r].pid]
             updated == payments'[req[r].pid]
             vr == req[r].verifyResponse
         IN
         /\ updated.status = "COMPLETED"
         /\ updated.gatewayTxId = vr.refId
         /\ updated.paidAt # Null
         /\ updated.verifiedAt # Null
         /\ DOMAIN updated.metadata = DOMAIN stored.metadata \cup ReferenceFields
         /\ \A k \in ReferenceFields : updated.metadata[k] = vr[k]
         /\ \A k \in DOMAIN stored.metadata \ ReferenceFields :
              updated.metadata[k] = stored.metadata[k]
         /\ response' = VerifyResponseBody(updated) \/ req'[r].result = updated]_vars

\* C29: a payment was completed and its metadata holds the message stored
\* at creation next to the adapter's refId.
C29_Witness ==
  \E p \in 1..Len(payments) :
    /\ payments[p].status = "COMPLETED"
    /\ payments[p].gatewayTxId # Null
    /\ "message" \in DOMAIN payments[p].metadata
    /\ payments[p].metadata.refId = payments[p].gatewayTxId
\* C27: an error answer carries the status of its error type: 404 for
\* NotFoundError, 400 for ValidationError, 400 or 502 for a gateway failure,
\* and 429 exactly for the rate limiter's rejection.
C27_StatusByErrorType ==
  IsErrorAnswer =>
    /\ response.error.type = "NotFoundError" => response.http = 404
    /\ response.error.type = "ValidationError" => response.http = 400
    /\ response.error.type = "PaymentGatewayError" => response.http \in {400, 502}
    /\ response.http = 429 <=> response.error = RateLimitError
\* C25: no step removes an ApiKey row, changes a row's hash or makes an
\* inactive row active; verifyAndTouch on the key of an inactive row
\* returns not-ok, a request carrying it is turned away by the key check,
\* and lastUsedAt changes only on rows that were active.
C25_DeactivatedStaysOut ==
  [][/\ Len(apiKeys') >= Len(apiKeys)
     /\ \A k \in 1..Len(apiKeys) :
          /\ apiKeys'[k].hash = apiKeys[k].hash
          /\ ~apiKeys[k].isActive => ~apiKeys'[k].isActive
          /\ apiKeys'[k].lastUsedAt # apiKeys[k].lastUsedAt => apiKeys[k].isActive
          /\ ~apiKeys[k].isActive => ~verifyAndTouch(randomKey(k)).ok
     /\ \A k \in {n \in 1..Len(apiKeys) : ~apiKeys[n].isActive} :
          \A headers \in {h \in HeaderInputs : extractKey(h) = randomKey(k)} :
            \A route \in {r \in Routes : RoutePath(r) \notin ExemptPaths} :
              \A id \in IdInputs(route), phone \in UserPhoneInputs :
                Handle(route, headers, id, phone) =>
                  response' = Unauthorized("Invalid API key")]_vars

\* C25: a key that had been used was deactivated, and a later request
\* carrying it was answered 401.
C25_Witness ==
  /\ response = Unauthorized("Invalid API key")
  /\ \E k \in 1..Len(apiKeys) :
       /\ ~apiKeys[k].isActive
       /\ apiKeys[k].lastUsedAt # Null

\* C26 (as stated): a request to a non-exempt path gets past the key check
\* only with the configured master key or a key that hashes to an active
\* row; a missing, unknown or deactivated key is answered 401; a
\* master-only route answers 403 to every key that is not the master key.
C26_KeyCheck ==
  [][\A route \in Routes, headers \in HeaderInputs :
       \A id \in IdInputs(route), phone \in UserPhoneInputs :
         (/\ RoutePath(route) \notin ExemptPaths
          /\ "by" \in DOMAIN response'
          /\ response'.by \in {"middleware", route}
          /\ Handle(route, headers, id, phone)) =>
           LET key == extractKey(headers)
               master == masterKey # "" /\ key = masterKey
               active == \E k \in 1..Len(apiKeys) :
                           apiKeys[k].hash = hash(key) /\ apiKeys[k].isActive
           IN
           /\ response'.by # "middleware" => (master \/ active)
           /\ (~master /\ ~active) => response'.http = 401
           /\ (route \in MasterOnlyRoutes /\ ~master) => response'.http = 403]_vars

\* C26 (amended): as stated, but a master-only route answers 403 to every
\* key that passed the key check and is not the master key, and only the
\* master key gets its handler to act.
C26_KeyCheckThen403 ==
  [][\A route \in Routes, headers \in HeaderInputs :
       \A id \in IdInputs(route), phone \in UserPhoneInputs :
         (/\ RoutePath(route) \notin ExemptPaths
          /\ "by" \in DOMAIN response'
          /\ response'.by \in {"middleware", route}
          /\ Handle(route, headers, id, phone)) =>
           LET key == extractKey(headers)
               master == masterKey # "" /\ key = masterKey
               active == \E k \in 1..Len(apiKeys) :
                           apiKeys[k].hash = hash(key) /\ apiKeys[k].isActive
           IN
           /\ response'.by # "middleware" => (master \/ active)
           /\ (~master /\ ~active) => response' \in
                {Unauthorized("Missing API key"), Unauthorized("Invalid API key")}
           /\ (~master /\ ~active) => (apiKeys' = apiKeys /\ users' = users)
           /\ (route \in MasterOnlyRoutes /\ ~master /\ active) =>
                /\ response' = Forbidden(route)
                /\ users' = users
                /\ Len(apiKeys') = Len(apiKeys)
                /\ \A k \in 1..Len(apiKeys) : apiKeys'[k].isActive = apiKeys[k].isActive]_vars

\* C26: with no master key configured, a request with a valid user key was
\* let through by the key check and answered 403 by a master-only route.
C26_Witness ==
  /\ masterKey = ""
  /\ response \in {Forbidden(route) : route \in MasterOnlyRoutes}
  /\ \E k \in 1..Len(apiKeys) : apiKeys[k].isActive /\ apiKeys[k].lastUsedAt # Null

\* The plaintext key an answer carries ("" for none).
KeyIn(answer) ==
  IF "key" \in DOMAIN answer THEN answer.key
  ELSE IF "apiKey" \in DOMAIN answer THEN answer.apiKey
  ELSE ""

\* C28: an OtpCode row holds the sha256 of its code and no code, an ApiKey
\* row holds the sha256 of its key and no key; an answer carries a
\* plaintext key exactly when its operation created the key's row, and no
\* later answer carries that key.
C28_OnlyHashesStored ==
  /\ [](/\ \A i \in 1..Len(otpCodes) :
             /\ otpCodes[i].codeHash \notin CodeInputs
             /\ otpCodes[i].phone \notin CodeInputs
             /\ \E c \in CodeInputs : otpCodes[i].codeHash = "sha256:" \o c
        /\ \A k \in 1..Len(apiKeys) :
             /\ apiKeys[k].hash \notin KeyInputs
             /\ apiKeys[k].label \notin KeyInputs \ {""}
             /\ apiKeys[k].hash = "sha256:" \o randomKey(k))
  /\ [][/\ Len(apiKeys') > Len(apiKeys) =>
             /\ Len(apiKeys') = Len(apiKeys) + 1
             /\ KeyIn(response') = randomKey(Len(apiKeys'))
        /\ (Len(apiKeys') = Len(apiKeys) /\ response' # response) =>
             KeyIn(response') = ""]_vars

\* C28: an OTP was stored, a login created a key and a second key was
\* created with it.
C28_Witness ==
  /\ Len(otpCodes) > 0
  /\ Len(apiKeys) = 2
  /\ KeyIn(response) = randomKey(2)

\* C24: every webhook delivery gets at least one and at most 3 HTTP
\* attempts; the stored attemptCount is the number of attempts made; the
\* waits before attempts 1, 2, 3 are 0, 1000 and 3000 ms; no attempt follows
\* a successful one; the delivery ends SUCCESS exactly when its last attempt
\* succeeded and FAILED exactly when all 3 attempts failed.
C24_BoundedRetry ==
  \A d \in 1..Len(deliveries) :
    LET tries == AttemptsOf(d)
        n == Len(tries)
    IN /\ n \in 1..3
       /\ deliveries[d].attemptCount = n
       /\ \A i \in 1..n : tries[i].wait = <<0, 1000, 3000>>[i]
       /\ \A i \in 1..(n - 1) : ~tries[i].ok
       /\ deliveries[d].status \in {"SUCCESS", "FAILED"}
       /\ deliveries[d].status = "SUCCESS" <=> tries[n].ok
       /\ deliveries[d].status = "FAILED" <=>
            (n = 3 /\ \A i \in 1..3 : ~tries[i].ok)

\* C24 witness: one dispatch left a delivery that succeeded at its second
\* attempt and a delivery that failed after three.
C24_Witness ==
  /\ \E d \in 1..Len(deliveries) :
       deliveries[d].status = "SUCCESS" /\ deliveries[d].attemptCount = 2
  /\ \E d \in 1..Len(deliveries) :
       deliveries[d].status = "FAILED" /\ deliveries[d].attemptCount = 3
  /\ Len(attemptLog) = 5

\* C23: whatever SMS, email, the audit write and the webhook deliveries do,
\* the step that stores a PENDING payment answers with that payment, the
\* step that ends an activation answers with the completed payment while
\* the subscription is ACTIVE, and the step that stores an OTP answers
\* success.
C23_SideFailuresSwallowed ==
  [][/\ Len(payments') > Len(payments) =>
          /\ payments'[Len(payments')].status = "PENDING"
          /\ response'.http = 200
          /\ response'.payment.id = payments'[Len(payments')].id
          /\ response'.payment.status = "PENDING"
     /\ \A r \in Requests :
          req[r].pc = "a_side" /\ req'[r].pc # "a_side" =>
            /\ subscriptions'[req[r].result.subscriptionId].status = "ACTIVE"
            /\ response' = VerifyResponseBody(req[r].result)
            /\ response'.success
     /\ Len(otpCodes') > Len(otpCodes) =>
          response' = [http |-> 200, success |-> TRUE]]_vars

\* C23 witness: an activation whose SMS, email, audit write and webhook
\* deliveries all failed was answered with the completed payment, the
\* subscription is ACTIVE and a delivery is FAILED.
C23_Witness ==
  /\ sideLog = [op |-> "activateSubscription",
                failed |-> {"sms", "email", "audit", "webhook"}]
  /\ "success" \in DOMAIN response /\ "payment" \in DOMAIN response
  /\ response.success
  /\ subscriptions[response.subscriptionId].status = "ACTIVE"
  /\ \E d \in 1..Len(deliveries) : deliveries[d].status = "FAILED"


\* C31: a verifyOtp call leaves the rate-limiter map as it was, and it
\* succeeds whenever its code is the code of the phone's most recently
\* created unused, unexpired OTP, however many attempts that OTP has
\* counted and whatever the rate limiter holds.
C31_WrongCodesNotThrottled ==
  [][\A p \in PhoneInputs, c \in CodeInputs :
       VerifyOtp(p, c) =>
         /\ rate' = rate
         /\ (\E i \in 1..Len(otpCodes) :
               /\ otpCodes[i].phone = normalizePhone(p)
               /\ otpCodes[i].usedAt = Null
               /\ otpCodes[i].expiresAt > now
               /\ otpCodes[i].codeHash = "sha256:" \o c
               /\ \A j \in 1..Len(otpCodes) \ {i} :
                    (/\ otpCodes[j].phone = normalizePhone(p)
                     /\ otpCodes[j].usedAt = Null
                     /\ otpCodes[j].expiresAt > now)
                    => otpCodes[j].createdAt < otpCodes[i].createdAt)
            => "apiKey" \in DOMAIN response']_vars

\* C31 witness: a login succeeded on an OTP that had counted a failed
\* attempt, while the phone's rate-limit counter stood at its maximum.
C31_Witness ==
  /\ "apiKey" \in DOMAIN response
  /\ \E i \in 1..Len(otpCodes) :
       otpCodes[i].usedAt # Null /\ otpCodes[i].attempts = 2
  /\ rate["0912"] # Null
  /\ rate["0912"].count = maxReq


\* C32: when one unused, unexpired OTP of the phone was created after all
\* its other unused, unexpired ones, a verifyOtp call is compared with that
\* row only: it succeeds exactly when its code is that row's code, it
\* counts an attempt on that row, and it leaves every other row as it
\* was; so the code of an earlier row is answered "Invalid OTP code" while
\* the newer row is outstanding.
C32_LatestRowCompared ==
  [][\A p \in PhoneInputs, c \in CodeInputs :
       \A n \in 1..Len(otpCodes) :
         (/\ otpCodes[n].phone = normalizePhone(p)
          /\ otpCodes[n].usedAt = Null
          /\ otpCodes[n].expiresAt > now
          /\ \A j \in 1..Len(otpCodes) \ {n} :
               (/\ otpCodes[j].phone = normalizePhone(p)
                /\ otpCodes[j].usedAt = Null
                /\ otpCodes[j].expiresAt > now)
               => otpCodes[j].createdAt < otpCodes[n].createdAt
          /\ VerifyOtp(p, c))
         => /\ otpCodes'[n].attempts = otpCodes[n].attempts + 1
            /\ \A j \in 1..Len(otpCodes) \ {n} : otpCodes'[j] = otpCodes[j]
            /\ IF otpCodes[n].codeHash = "sha256:" \o c
                 THEN "apiKey" \in DOMAIN response' /\ otpCodes'[n].usedAt # Null
                 ELSE /\ response' = [http |-> 400, error |-> InvalidOtpError]
                      /\ otpCodes'[n].usedAt = Null]_vars

\* C32 witness: the code of the earlier OTP was rejected and counted on the
\* newer one; after the newer one was consumed, the earlier one was
\* compared and consumed.
C32_Witness ==
  \E i, n \in 1..Len(otpCodes) :
    /\ otpCodes[i].createdAt < otpCodes[n].createdAt
    /\ otpCodes[i].codeHash # otpCodes[n].codeHash
    /\ otpCodes[n].usedAt # Null /\ otpCodes[n].attempts = 2
    /\ otpCodes[i].usedAt # Null /\ otpCodes[i].attempts = 1
    /\ Len(apiKeys) = 2


\* The phone a text of PhoneTexts stands for.
PhoneOf(text) == IF text \in {"0935", "+98935"} THEN "0935" ELSE "0912"

\* The phone's most recently created unused, unexpired OTP holds code c.
LatestOtpHolds(phone, c) ==
  \E i \in 1..Len(otpCodes) :
    /\ otpCodes[i].phone = phone
    /\ otpCodes[i].usedAt = Null
    /\ otpCodes[i].expiresAt > now
    /\ otpCodes[i].codeHash = "sha256:" \o c
    /\ \A j \in 1..Len(otpCodes) \ {i} :
         (/\ otpCodes[j].phone = phone
          /\ otpCodes[j].usedAt = Null
          /\ otpCodes[j].expiresAt > now)
         => otpCodes[j].createdAt < otpCodes[i].createdAt

\* C33: normalizing a normalized phone changes nothing; "+98X" and "0X",
\* with or without spaces around them, normalize to "0X"; a requestOtp in
\* any form of a phone counts on the one rate-limit entry of that phone and
\* stores its OTP under that phone, and a verifyOtp in any form of the
\* phone succeeds with the code of the phone's most recently created
\* unused, unexpired OTP.
C33_OnePhoneManyForms ==
  /\ \A s \in CharSeqs : normalizeChars(normalizeChars(s)) = normalizeChars(s)
  /\ \A x \in CharSeqs, a \in {<<>>, <<" ">>}, b \in {<<>>, <<" ">>} :
       (x = <<>> \/ (Head(x) # " " /\ x[Len(x)] # " ")) =>
         /\ normalizeChars(a \o <<"+", "9", "8">> \o x \o b) = <<"0">> \o x
         /\ normalizeChars(a \o <<"0">> \o x \o b) = <<"0">> \o x
  /\ [][/\ \A p \in RequestForms, smsOk \in BOOLEAN :
             RequestOtpWith(p, "1111", smsOk) =>
               /\ \A k \in RateKeys \ {PhoneOf(p)} : rate'[k] = rate[k]
               /\ Len(otpCodes') > Len(otpCodes) =>
                    /\ otpCodes'[Len(otpCodes')].phone = PhoneOf(p)
                    /\ rate'[PhoneOf(p)] # rate[PhoneOf(p)]
        /\ \A q \in VerifyForms, c \in CodeInputs :
             (LatestOtpHolds(PhoneOf(q), c) /\ VerifyOtp(q, c)) =>
               /\ "apiKey" \in DOMAIN response'
               /\ response'.user.phone = PhoneOf(q)]_vars

\* C33 witness: two requests in "+98" and padded forms filled the one
\* counter of the phone, and a verify request in another form logged the
\* phone in.
C33_Witness ==
  /\ rate["0912"] # Null
  /\ rate["0912"].count = 2
  /\ rate["0935"] = Null
  /\ "apiKey" \in DOMAIN response
  /\ response.user.phone = "0912"

\* C34: a requestOtp answered with the rate-limit error leaves the OtpCode
\* table, the rate-limiter map and the error log as they were, and no
\* requestOtp changes the rate-limit entry of another phone.
C34_RejectedChangesNothing ==
  [][\A p \in RequestForms, smsOk \in BOOLEAN :
       RequestOtpWith(p, "1111", smsOk) =>
         /\ \A k \in RateKeys \ {PhoneOf(p)} : rate'[k] = rate[k]
         /\ response' = [http |-> 429, error |-> RateLimitError] =>
              /\ otpCodes' = otpCodes
              /\ rate' = rate
              /\ sideLog' = sideLog
              /\ users' = users /\ apiKeys' = apiKeys]_vars

\* C34 witness: a third request of a phone was rejected one millisecond
\* after its window opened, the entry still holding the window's start,
\* while the other phone has an entry of its own.
C34_Witness ==
  /\ response = [http |-> 429, error |-> RateLimitError]
  /\ now = 1
  /\ rate["0912"] = [count |-> maxReq, windowStart |-> 0]
  /\ rate["0935"] # Null
  /\ rate["0935"].windowStart = 1


\* The columns of ApiKey rows other than lastUsedAt, which the key check
\* writes on the caller's own key.
KeyColumns(keys) ==
  [k \in 1..Len(keys) |->
     [hash |-> keys[k].hash, userId |-> keys[k].userId,
      label |-> keys[k].label, isActive |-> keys[k].isActive]]

C37_CancelledAbsorbing ==
  [][\A s \in 1..Len(subscriptions) :
       subscriptions[s].status = "CANCELLED" =>
         /\ subscriptions'[s].status = "CANCELLED"
         /\ subscriptions'[s].startDate = subscriptions[s].startDate
         /\ subscriptions'[s].endDate = subscriptions[s].endDate]_vars


C36_ConsumedOnceConcurrently ==
  /\ [](Len(apiKeys) + Cardinality({r \in Requests : req[r].pc = "l_key"})
          <= Cardinality({i \in 1..Len(otpCodes) : otpCodes[i].usedAt # Null}))
  /\ [][\A r \in Requests :
          (req[r].pc = "l_update" /\ req'[r].pc # "l_update") =>
            /\ otpCodes'[req[r].snap.id].attempts =
                 otpCodes[req[r].snap.id].attempts + 1
            /\ otpCodes[req[r].snap.id].usedAt # Null =>
                 (req'[r].pc = "idle" /\ "error" \in DOMAIN response')]_vars

\* The requestOtp calls of a key whose OtpCode row is not yet committed.
CallsCreating(key) ==
  Cardinality({r \in Requests : req[r].pc = "o_create" /\ req[r].snap.phone = key})

\* C38: with requestOtp calls running concurrently, the counter of a key
\* is the number of calls admitted in its window, which is at most the
\* configured maximum; every admitted call has its OtpCode row or is about
\* to create it, and a call is rejected only when the maximum was admitted
\* in the window.
C38_NoLostUpdate ==
  /\ [](\A k \in RateKeys :
          /\ rate[k] = CurrentWindow(k)
          /\ rate[k] # Null => rate[k].count <= maxReq
          /\ \A a \in 0..MaxAuthTime :
               (rate[k] # Null /\ a = rate[k].windowStart) =>
                 AdmittedIn(k, a) <= maxReq
          /\ Len(admitted[k]) =
               Cardinality({i \in 1..Len(otpCodes) : otpCodes[i].phone = k})
                 + CallsCreating(k))
  /\ [][(response' # response /\ response' = [http |-> 429, error |-> RateLimitError]) =>
          \E k \in RateKeys :
            /\ rate[k] # Null
            /\ rate[k].count = maxReq
            /\ now - rate[k].windowStart <= windowMs
            /\ rate' = rate]_vars

\* C38 witness: two requestOtp calls of the phone are in flight at once,
\* both admitted and neither committed, and the counter holds both.
C38_Witness ==
  /\ \A r \in Requests : req[r].pc = "o_create"
  /\ rate["0912"] = [count |-> maxReq, windowStart |-> 0]
  /\ now = 1
  /\ otpCodes = <<>>

====
